---------------------------- MODULE Spec2Model ----------------------------
(***************************************************************************)
(* A model of the decision-and-risk pipeline of LLM-TradeBot:              *)
(*   - src/utils/action_protocol.py    normalize_action                    *)
(*   - src/strategy/decision_validator.py   DecisionValidator              *)
(*   - src/strategy/llm_parser.py      LLMOutputParser                     *)
(*   - main.py                         MultiAgentTradingBot                *)
(*   - src/llm/base.py                 BaseLLMClient.chat_messages         *)
(*                                                                         *)
(* Python values are tagged records: None, Str(s), Num(n).  A dict is a    *)
(* function whose DOMAIN is the set of keys present.  Text is a TLA+       *)
(* string handled character by character (Len, SubSeq, \o).                *)
(***************************************************************************)
EXTENDS Integers, Sequences, FiniteSets, TLC

VARIABLES
    pAction,     \* normalize_action: the `action` argument (a Python value)
    pSide,       \* normalize_action: the `position_side` argument
    pOut,        \* normalize_action: the returned string, None before the call
    pWord,       \* the action word pAction was written from (lower case, no blanks)
    decision0,   \* validate: the decision dict as the caller supplied it
    decision,    \* validate: the same dict object, as validate leaves it
    vresult,     \* validate: what the call produced (pending / returned / raised)
    decision1,   \* validate: a copy of the dict as the first call left it
    vresult2,    \* validate: what a second call on the same dict produced
    response,    \* parse: the `llm_response` argument (a Python value)
    parsed,      \* parse: the returned dict, NotParsed before the call
    scanned,     \* what the extraction methods returned for the response text
    test_mode,       \* bot.test_mode
    pc,              \* run_trading_cycle: the step the invocation is at
    cycle_counter,   \* global_state.cycle_counter
    current_price,   \* run_trading_cycle: the sampled price
    vote_result,     \* run_trading_cycle: what make_decision returned
    order_params,    \* run_trading_cycle: the order parameters dict
    audit_result,    \* run_trading_cycle: what audit_decision returned
    guardian_status, \* global_state.guardian_status
    executions,      \* the execution steps this invocation has performed
    trade_history,   \* global_state.trade_history
    result,          \* what run_trading_cycle returned, None while it runs
    max_retries,     \* chat_messages: self.config.max_retries
    attempt,         \* chat_messages: the loop variable of the retry loop
    last_error,      \* chat_messages: the last exception caught, None before any
    posted,          \* chat_messages: the outcome of every client.post, in order
    slept,           \* chat_messages: the arguments of every time.sleep, in order
    reply,           \* chat_messages: what the call produced (running / returned / raised)
    execution_mode,  \* global_state.execution_mode, written by the operator
    loop_pc,         \* run_continuous: the line the loop is at
    current_mode,    \* run_continuous: the mode the loop read last
    wait_i,          \* run_continuous: the loop variable of the wait between cycles
    equity_curve,    \* PerformanceMetrics.calculate: total_equity of each point, one a day
    trades,          \* PerformanceMetrics.calculate: the trades argument
    metrics,         \* PerformanceMetrics.calculate: the MetricsResult, None before the call
    snapshot,        \* TrendSubAgent.analyze: the snapshot argument
    trend,           \* TrendSubAgent.analyze: the returned dict, None before the call
    stable_5m,       \* optimized_strategy_v2: len(snapshot.stable_5m)
    ind,             \* optimized_strategy_v2: what calculate_indicators returns
    positions,       \* optimized_strategy_v2: portfolio.positions
    signal,          \* optimized_strategy_v2: the returned dict, None before the call
    stats_by_provider, \* llm/metrics.py: _stats_by_provider
    stats_by_model,  \* llm/metrics.py: _stats_by_model
    lock,            \* llm/metrics.py: the thread holding _lock, None when free
    calls,           \* the chat_messages call of each thread: line, attempt, locals
    now,             \* datetime.now(), in seconds
    equity_history,  \* global_state.equity_history
    decision_history, \* global_state.decision_history
    recent_logs,     \* global_state.recent_logs
    account_overview, \* global_state.account_overview
    latest_decision, \* global_state.latest_decision
    critic_confidence, \* global_state.critic_confidence
    last_update      \* global_state.last_update

protoVars == <<pAction, pSide, pOut, pWord>>
valVars == <<decision0, decision, vresult, decision1, vresult2>>
parserVars == <<response, parsed, scanned>>
cycleVars == <<test_mode, pc, cycle_counter, current_price, vote_result, order_params,
               audit_result, guardian_status, executions, trade_history, result>>
llmVars == <<max_retries, attempt, last_error, posted, slept, reply>>
loopVars == <<execution_mode, loop_pc, current_mode, wait_i>>
metricsVars == <<equity_curve, trades, metrics>>
trendVars == <<snapshot, trend>>
strategyVars == <<stable_5m, ind, positions, signal>>
statsVars == <<stats_by_provider, stats_by_model, lock, calls>>
stateVars == <<now, equity_history, decision_history, recent_logs, account_overview,
               latest_decision, critic_confidence, last_update>>
moreVars == <<metricsVars, trendVars, strategyVars, statsVars, stateVars>>
vars == <<pAction, pSide, pOut, pWord, decision0, decision, vresult, decision1, vresult2,
          response, parsed, scanned, test_mode, pc, cycle_counter, current_price,
          vote_result, order_params, audit_result, guardian_status, executions,
          trade_history, result, max_retries, attempt, last_error, posted, slept,
          reply, execution_mode, loop_pc, current_mode, wait_i, equity_curve, trades,
          metrics, snapshot, trend, stable_5m, ind, positions, signal,
          stats_by_provider, stats_by_model, lock, calls, now, equity_history,
          decision_history, recent_logs, account_overview, latest_decision,
          critic_confidence, last_update>>

-----------------------------------------------------------------------------
(* Python values *)

None == [t |-> "none"]
Str(s) == [t |-> "str", v |-> s]
Num(n) == [t |-> "num", v |-> n]

IsNone(x) == x.t = "none"
IsStr(x) == x.t = "str"
IsNum(x) == x.t = "num"

\* Python truthiness: None, 0 and "" are falsy.
Truthy(x) ==
    CASE IsNone(x) -> FALSE
      [] IsNum(x) -> x.v # 0
      [] IsStr(x) -> x.v # ""

\* `a or b`
OrElse(a, b) == IF Truthy(a) THEN a ELSE b

\* dict helpers: `k in d`, `d.get(k)`, `d.get(k, dflt)`
Has(d, k) == k \in DOMAIN d
Get(d, k) == IF Has(d, k) THEN d[k] ELSE None
GetOr(d, k, dflt) == IF Has(d, k) THEN d[k] ELSE dflt

-----------------------------------------------------------------------------
(* Text helpers *)

Char(s, i) == SubSeq(s, i, i)

\* the least element of a non-empty set of positions
Least(S) == CHOOSE x \in S : \A y \in S : x <= y

\* the first position from i on where P holds, 0 when there is none
FirstFrom(s, i, P(_, _)) ==
    LET hits == {j \in i..Len(s) : P(s, j)}
    IN  IF hits = {} THEN 0 ELSE Least(hits)

Whitespace == {" ", "\t", "\n", "\r", "\f"}
Digits == {"0", "1", "2", "3", "4", "5", "6", "7", "8", "9"}
UpperCase == "ABCDEFGHIJKLMNOPQRSTUVWXYZ"
LowerCase == "abcdefghijklmnopqrstuvwxyz"

RECURSIVE LStrip(_)
LStrip(s) ==
    IF Len(s) > 0 /\ Head(s) \in Whitespace THEN LStrip(Tail(s)) ELSE s

RECURSIVE RStrip(_)
RStrip(s) ==
    IF Len(s) > 0 /\ Char(s, Len(s)) \in Whitespace
    THEN RStrip(SubSeq(s, 1, Len(s) - 1))
    ELSE s

\* str.strip()
Strip(s) == RStrip(LStrip(s))

LowerOf == [c \in {Char(UpperCase, i) : i \in 1..26} |->
               Char(LowerCase, CHOOSE i \in 1..26 : Char(UpperCase, i) = c)]

LowerChar(c) == IF c \in DOMAIN LowerOf THEN LowerOf[c] ELSE c

RECURSIVE Lower(_)
\* str.lower(), one half of the text after the other
Lower(s) ==
    IF Len(s) = 0 THEN ""
    ELSE IF Len(s) = 1 THEN LowerChar(s)
    ELSE Lower(SubSeq(s, 1, Len(s) \div 2)) \o Lower(SubSeq(s, Len(s) \div 2 + 1, Len(s)))

\* `sub in s` for a one-character sub
ContainsChar(s, c) == \E i \in 1..Len(s) : Char(s, i) = c

\* str(x) of a Python value; only the cases normalize_action can see after
\* `x or ""` (a non-empty string, or a non-zero number written in decimal).
RECURSIVE Decimal(_)
Decimal(n) ==
    IF n < 0 THEN "-" \o Decimal(-n)
    ELSE IF n < 10 THEN Char("0123456789", n + 1)
    ELSE Decimal(n \div 10) \o Char("0123456789", (n % 10) + 1)

PyStr(x) ==
    CASE IsStr(x) -> x.v
      [] IsNum(x) -> Decimal(x.v)
      [] IsNone(x) -> "None"

-----------------------------------------------------------------------------
(* src/utils/action_protocol.py *)

OPEN_LONG == "open_long"
OPEN_SHORT == "open_short"
CLOSE_LONG == "close_long"
CLOSE_SHORT == "close_short"
WAIT == "wait"
HOLD == "hold"
CLOSE_POSITION == "close_position"

\* class Action: the six canonical actions
CanonicalActions == {OPEN_LONG, OPEN_SHORT, CLOSE_LONG, CLOSE_SHORT, WAIT, HOLD}

\* the alias table of normalize_action
mapping ==
    [open_long |-> OPEN_LONG, long |-> OPEN_LONG, buy |-> OPEN_LONG,
     go_long |-> OPEN_LONG,
     open_short |-> OPEN_SHORT, short |-> OPEN_SHORT, sell |-> OPEN_SHORT,
     go_short |-> OPEN_SHORT,
     close_long |-> CLOSE_LONG, exit_long |-> CLOSE_LONG,
     close_short |-> CLOSE_SHORT, exit_short |-> CLOSE_SHORT,
     wait |-> WAIT, skip |-> WAIT, hold |-> HOLD]

GenericCloseAliases == {"close", "exit", "close_position"}

\* a plausible slip: the generic close resolved to the opposite side
normalize_action_swapped(action, position_side) ==
    LET raw == Lower(Strip(PyStr(OrElse(action, Str("")))))
        side == Lower(Strip(PyStr(OrElse(position_side, Str("")))))
    IN  IF raw \in DOMAIN mapping THEN mapping[raw]
        ELSE IF raw \in GenericCloseAliases
             THEN IF side \in {"long", "open_long"} THEN CLOSE_SHORT
                  ELSE IF side \in {"short", "open_short"} THEN CLOSE_LONG
                  ELSE CLOSE_POSITION
        ELSE WAIT

\* a plausible slip: an unrecognized action passed through instead of `wait`
normalize_action_passthrough(action, position_side) ==
    LET raw == Lower(Strip(PyStr(OrElse(action, Str("")))))
        side == Lower(Strip(PyStr(OrElse(position_side, Str("")))))
    IN  IF raw \in DOMAIN mapping THEN mapping[raw]
        ELSE IF raw \in GenericCloseAliases
             THEN IF side \in {"long", "open_long"} THEN CLOSE_LONG
                  ELSE IF side \in {"short", "open_short"} THEN CLOSE_SHORT
                  ELSE CLOSE_POSITION
        ELSE raw

\* a plausible slip: the mapping holds the aliases but not the canonical
\* names themselves
normalize_action_aliases_only(action, position_side) ==
    LET raw == Lower(Strip(PyStr(OrElse(action, Str("")))))
        side == Lower(Strip(PyStr(OrElse(position_side, Str("")))))
    IN  IF raw \in DOMAIN mapping /\ mapping[raw] # raw THEN mapping[raw]
        ELSE IF raw \in GenericCloseAliases
             THEN IF side \in {"long", "open_long"} THEN CLOSE_LONG
                  ELSE IF side \in {"short", "open_short"} THEN CLOSE_SHORT
                  ELSE CLOSE_POSITION
        ELSE WAIT

normalize_action(action, position_side) ==
    LET raw == Lower(Strip(PyStr(OrElse(action, Str("")))))
        side == Lower(Strip(PyStr(OrElse(position_side, Str("")))))
    IN  IF raw \in DOMAIN mapping THEN mapping[raw]
        ELSE IF raw \in GenericCloseAliases
             THEN IF side \in {"long", "open_long"} THEN CLOSE_LONG
                  ELSE IF side \in {"short", "open_short"} THEN CLOSE_SHORT
                  ELSE CLOSE_POSITION
        ELSE WAIT

-----------------------------------------------------------------------------
(* src/strategy/decision_validator.py *)

\* The validator imports VALID_ACTIONS and OPEN_ACTIONS from the action
\* protocol; the closed ActionKind enumeration (seven values, the generic
\* close included) and the two open actions.
VALID_ACTIONS == CanonicalActions \cup {CLOSE_POSITION}
OPEN_ACTIONS == {OPEN_LONG, OPEN_SHORT}

\* DecisionValidator.__init__ defaults
max_leverage == 5
max_position_pct == 30
min_confidence == 0
max_confidence == 100
min_risk_reward_ratio == 2

Err(kind, field) == [kind |-> kind, field |-> field]

Returned(valid, errors) == [status |-> "returned", valid |-> valid, errors |-> errors]
Raised == [status |-> "raised", valid |-> FALSE, errors |-> <<>>]
Pending == [status |-> "pending", valid |-> FALSE, errors |-> <<>>]
Idle == [status |-> "idle", valid |-> FALSE, errors |-> <<>>]

\* `lo <= x <= hi` on Python values: a TypeError unless x is a number
\* (lo and hi are the configured numbers).
InRange(lo, x, hi) ==
    IF ~IsNum(x) THEN "raise"
    ELSE IF lo <= x.v /\ x.v <= hi THEN "true" ELSE "false"

\* `a < b` on Python values.  A number against a string or None is a
\* TypeError.  (Two strings would be ordered lexicographically; the decisions
\* enumerated below never hold a string entry price, so that case is absent.)
Less(a, b) ==
    IF ~(IsNum(a) /\ IsNum(b)) THEN "raise"
    ELSE IF a.v < b.v THEN "true" ELSE "false"

Abs(n) == IF n < 0 THEN -n ELSE n

\* number of consecutive digits of s from position i on
DigitRun(s, i) ==
    IF i > Len(s) THEN 0
    ELSE Least({j \in i..(Len(s) + 1) : j = Len(s) + 1 \/ Char(s, j) \notin Digits}) - i

\* `$`: the end of the string, or just before a final newline
AtEnd(s, i) == i = Len(s) + 1 \/ (i = Len(s) /\ Char(s, i) = "\n")

\* (,\d{3})+(\.\d+)?$ from position i on, at least one group already needed
RECURSIVE ThousandsGroups(_, _)
ThousandsGroups(s, i) ==
    /\ i <= Len(s)
    /\ Char(s, i) = ","
    /\ DigitRun(s, i + 1) = 3
    /\ LET j == i + 4
       IN  \/ AtEnd(s, j)
           \/ ThousandsGroups(s, j)
           \/ /\ j <= Len(s)
              /\ Char(s, j) = "."
              /\ DigitRun(s, j + 1) >= 1
              /\ AtEnd(s, j + 1 + DigitRun(s, j + 1))

\* re.match(r'^\d{1,3}(,\d{3})+(\.\d+)?$', value)
IsThousands(s) ==
    /\ DigitRun(s, 1) \in 1..3
    /\ ThousandsGroups(s, DigitRun(s, 1) + 1)

\* Every key a decision may carry, in the order the dict was built (Python
\* iterates a dict in insertion order).
KeyOrder ==
    <<"symbol", "action", "reasoning", "position_side", "confidence",
      "leverage", "position_size_usd", "position_size_pct", "entry_price",
      "current_price", "stop_loss", "take_profit", "risk_usd">>

FormatErrorsOf(key, value) ==
    IF IsStr(value)
    THEN (IF ContainsChar(value.v, "~") THEN <<Err("format_tilde", key)>> ELSE <<>>)
         \o (IF IsThousands(value.v) THEN <<Err("format_thousands", key)>> ELSE <<>>)
    ELSE <<>>

RECURSIVE FormatErrorsFrom(_, _)
FormatErrorsFrom(d, i) ==
    IF i > Len(KeyOrder) THEN <<>>
    ELSE (IF Has(d, KeyOrder[i]) THEN FormatErrorsOf(KeyOrder[i], d[KeyOrder[i]]) ELSE <<>>)
         \o FormatErrorsFrom(d, i + 1)

\* DecisionValidator._validate_format
validate_format(d) == FormatErrorsFrom(d, 1)

\* `decision.get('entry_price') or decision.get('current_price')`
EntryOf(d) == OrElse(Get(d, "entry_price"), Get(d, "current_price"))

\* DecisionValidator.validate_stop_loss_direction: "true", "false" or "raise"
validate_stop_loss_direction(d) ==
    LET action == normalize_action(Get(d, "action"), Get(d, "position_side"))
        entry_price == EntryOf(d)
        stop_loss == Get(d, "stop_loss")
    IN  IF action \notin OPEN_ACTIONS THEN "true"
        ELSE IF IsNone(entry_price) \/ IsNone(stop_loss) THEN "true"
        ELSE IF action = OPEN_LONG THEN Less(stop_loss, entry_price)
        ELSE IF action = OPEN_SHORT THEN Less(entry_price, stop_loss)
        ELSE "true"

NoRatio == [status |-> "none", risk |-> 0, reward |-> 0]
RatioRaised == [status |-> "raise", risk |-> 0, reward |-> 0]

\* DecisionValidator.calculate_risk_reward_ratio.  The ratio reward / risk is
\* kept as the pair (reward, risk): status "none" is Python's None, "raise" a
\* TypeError from subtracting a non-number.
calculate_risk_reward_ratio(d) ==
    LET action == normalize_action(Get(d, "action"), Get(d, "position_side"))
        entry_price == EntryOf(d)
        stop_loss == Get(d, "stop_loss")
        take_profit == Get(d, "take_profit")
    IN  IF action \notin OPEN_ACTIONS THEN NoRatio
        ELSE IF IsNone(entry_price) \/ IsNone(stop_loss) \/ IsNone(take_profit)
             THEN NoRatio
        ELSE IF ~(IsNum(entry_price) /\ IsNum(stop_loss)) THEN RatioRaised
        ELSE IF ~IsNum(take_profit) THEN RatioRaised
        ELSE LET risk == IF action = OPEN_LONG
                         THEN Abs(entry_price.v - stop_loss.v)
                         ELSE Abs(stop_loss.v - entry_price.v)
                 reward == IF action = OPEN_LONG
                           THEN Abs(take_profit.v - entry_price.v)
                           ELSE Abs(entry_price.v - take_profit.v)
             IN  IF risk = 0 THEN NoRatio
                 ELSE [status |-> "ratio", risk |-> risk, reward |-> reward]

\* DecisionValidator.validate_risk_reward_ratio: ratio >= min_risk_reward_ratio
validate_risk_reward_ratio(d) ==
    LET ratio == calculate_risk_reward_ratio(d)
    IN  IF ratio.status = "raise" THEN "raise"
        ELSE IF ratio.status = "none" THEN "true"
        ELSE IF ratio.reward >= min_risk_reward_ratio * ratio.risk THEN "true"
        ELSE "false"


\* a plausible slip: reasoning left out of the required fields
required_fields_without_reasoning == <<"symbol", "action">>
required_fields == <<"symbol", "action", "reasoning">>
open_required == <<"leverage", "position_size_usd", "stop_loss", "take_profit">>
numeric_fields == <<"leverage", "position_size_usd", "stop_loss", "take_profit", "risk_usd">>

ErrsFor(kind, fields) == [i \in 1..Len(fields) |-> Err(kind, fields[i])]

\* a plausible slip: the entry price the checks used is also stored in the dict
SetAction_and_entry(d, a) ==
    [k \in DOMAIN d \cup {"entry_price"} |->
        IF k = "action" THEN Str(a)
        ELSE IF k = "entry_price" THEN EntryOf(d)
        ELSE d[k]]

\* a plausible slip: the normalized action computed but never stored
SetAction_dropped(d, a) == d

\* `decision['action'] = normalize_action(...)`: the one write validate makes
SetAction(d, a) == [d EXCEPT !["action"] = Str(a)]

\* validate, lines 99-106: the type check of the numeric fields
NumericErrorsOf(d, f) ==
    IF ~Has(d, f) THEN <<>>
    ELSE IF IsStr(d[f]) THEN <<Err("numeric_is_string", f)>>
    ELSE IF ~IsNum(d[f]) THEN <<Err("numeric_not_number", f)>>
    ELSE <<>>

RECURSIVE NumericErrorsFrom(_, _)
NumericErrorsFrom(d, i) ==
    IF i > Len(numeric_fields) THEN <<>>
    ELSE NumericErrorsOf(d, numeric_fields[i]) \o NumericErrorsFrom(d, i + 1)

Outcome(d, r) == [decision |-> d, result |-> r]

\* validate, lines 75-123: the checks of an open decision; d already carries
\* the normalized action, errors what the earlier checks found
validate_open(d, errors) ==
    LET missing == SelectSeq(open_required,
                             LAMBDA f : ~Has(d, f) \/ IsNone(d[f]))
        e1 == errors \o ErrsFor("open_missing", missing)
    IN  IF missing # <<>> THEN Outcome(d, Returned(FALSE, e1))
        ELSE
        LET lev == InRange(1, GetOr(d, "leverage", Num(1)), max_leverage)
            pct == IF Has(d, "position_size_pct")
                   THEN InRange(0, d["position_size_pct"], max_position_pct)
                   ELSE "true"
            e2 == e1 \o (IF lev = "false" THEN <<Err("leverage_range", "leverage")>> ELSE <<>>)
            e3 == e2 \o (IF pct = "false"
                         THEN <<Err("position_pct_range", "position_size_pct")>>
                         ELSE <<>>)
            e4 == e3 \o NumericErrorsFrom(d, 1)
            sl == validate_stop_loss_direction(d)
            e5 == e4 \o (IF sl = "false"
                         THEN <<Err("stop_loss_direction", "stop_loss")>>
                         ELSE <<>>)
            rr == validate_risk_reward_ratio(d)
            e6 == e5 \o (IF rr = "false" THEN <<Err("risk_reward", "take_profit")>> ELSE <<>>)
        IN  IF lev = "raise" THEN Outcome(d, Raised)
            ELSE IF pct = "raise" THEN Outcome(d, Raised)
            ELSE IF sl = "raise" THEN Outcome(d, Raised)
            ELSE IF rr = "raise" THEN Outcome(d, Raised)
            ELSE Outcome(d, Returned(e6 = <<>>, e6))

\* DecisionValidator.validate: the dict as the call leaves it, and what the
\* call produced
validate(d0) ==
    LET missing == SelectSeq(required_fields, LAMBDA f : ~Has(d0, f))
    IN  IF missing # <<>>
        THEN Outcome(d0, Returned(FALSE, ErrsFor("missing_required", missing)))
        ELSE
        LET d == SetAction(d0, normalize_action(Get(d0, "action"),
                                                Get(d0, "position_side")))
            e1 == IF PyStr(d["action"]) \notin VALID_ACTIONS
                  THEN <<Err("invalid_action", "action")>>
                  ELSE <<>>
            conf == IF Has(d, "confidence")
                    THEN InRange(min_confidence, d["confidence"], max_confidence)
                    ELSE "true"
            e2 == e1 \o (IF conf = "false"
                         THEN <<Err("confidence_range", "confidence")>>
                         ELSE <<>>)
            e3 == e2 \o validate_format(d)
        IN  IF conf = "raise" THEN Outcome(d, Raised)
            ELSE IF PyStr(d["action"]) \in OPEN_ACTIONS THEN validate_open(d, e3)
            ELSE Outcome(d, Returned(e3 = <<>>, e3))

-----------------------------------------------------------------------------
(* The inputs of the decision specification *)

\* prices range over 0..MaxPrice
MaxPrice == 4
\* an action word carries up to MaxPad blanks on either side
MaxPad == 1

Absent == [t |-> "absent"]

\* the dict holding the fields of `full` that are not Absent
Dict(full) == [k \in {x \in DOMAIN full : full[x] # Absent} |-> full[k]]

RECURSIVE Blanks(_)
Blanks(n) == IF n = 0 THEN "" ELSE " " \o Blanks(n - 1)

UpperChar(c) ==
    IF \E i \in 1..26 : Char(LowerCase, i) = c
    THEN Char(UpperCase, CHOOSE i \in 1..26 : Char(LowerCase, i) = c)
    ELSE c

RECURSIVE Upper(_)
Upper(s) == IF Len(s) = 0 THEN "" ELSE UpperChar(Head(s)) \o Upper(Tail(s))

ActionWords ==
    {"open_long", "long", "buy", "go_long", "open_short", "short", "sell",
     "go_short", "close_long", "exit_long", "close_short", "exit_short",
     "wait", "skip", "hold", "close", "exit", "close_position",
     "add_position", "something_unknown", ""}

\* each input with the word it spells: the word itself or its upper-case
\* form, padded with blanks; None and numbers
ActionInputs ==
    {[word |-> "", value |-> None], [word |-> "", value |-> Num(0)],
     [word |-> "5", value |-> Num(5)]}
    \cup {[word |-> w, value |-> Str(Blanks(l) \o w \o Blanks(r))] :
            w \in ActionWords, l \in 0..MaxPad, r \in 0..MaxPad}
    \cup {[word |-> w, value |-> Str(Blanks(l) \o Upper(w) \o Blanks(r))] :
            w \in ActionWords, l \in 0..MaxPad, r \in 0..MaxPad}

SideInputs ==
    {None, Str(""), Str("long"), Str("short"), Str("open_long"),
     Str("open_short"), Str(" SHORT "), Str("Long"), Str("both")}

PriceInputs == {Num(n) : n \in 0..MaxPrice}

BaseFields ==
    [symbol |-> Str("BTCUSDT"), action |-> Str("open_long"),
     reasoning |-> Str("Trend and momentum align."),
     position_side |-> Absent, confidence |-> Absent,
     leverage |-> Num(2), position_size_usd |-> Num(200),
     position_size_pct |-> Absent, entry_price |-> Absent,
     current_price |-> Absent, stop_loss |-> Absent, take_profit |-> Absent,
     risk_usd |-> Absent]

\* open decisions over every combination of prices
PriceDecisions ==
    {Dict([BaseFields EXCEPT !.action = a, !.entry_price = e,
                             !.current_price = c, !.stop_loss = sl,
                             !.take_profit = tp]) :
        a \in {Str("open_long"), Str("open_short"), Str("long"), Str("SELL ")},
        e \in {Absent, None} \cup PriceInputs,
        c \in {Absent} \cup PriceInputs,
        sl \in PriceInputs,
        tp \in PriceInputs}

\* decisions without the open fields: required fields, aliases, sides,
\* confidence, banned formats
ShapeDecisions ==
    {Dict([BaseFields EXCEPT !.symbol = sy, !.action = a, !.reasoning = re,
                             !.position_side = ps, !.confidence = cf,
                             !.leverage = Absent,
                             !.position_size_usd = Absent]) :
        sy \in {Absent, Str("ETHUSDT")},
        a \in {Absent, None, Num(5), Str("long"), Str("close"), Str("exit"),
               Str("close_position"), Str(" Close "), Str("add_position"),
               Str("wait"), Str("HOLD"), Str("close_long"), Str("exit_short"),
               Str("")},
        re \in {Absent, Str("Trend reversed against position."),
                Str("85000~86000"), Str("84,710")},
        ps \in {Absent, None, Str("long"), Str("short"), Str("SHORT"),
                Str("open_long"), Str("both")},
        cf \in {Absent, Num(80), Num(150), Str("high")}}

\* open decisions whose numeric fields are missing, None, out of range or
\* strings
TypeDecisions ==
    {Dict([BaseFields EXCEPT !.action = a, !.leverage = lv,
                             !.position_size_usd = ps, !.stop_loss = sl,
                             !.take_profit = tp, !.risk_usd = ru,
                             !.position_size_pct = pp, !.entry_price = e]) :
        a \in {Str("open_long"), Str("short")},
        lv \in {Absent, None, Num(2), Num(9), Str("2")},
        ps \in {Num(200), Str("1,200"), Absent},
        sl \in {Num(1), Str("1"), None},
        tp \in {Num(4), Str("4~5"), Absent},
        ru \in {Absent, Num(30), Str("30")},
        pp \in {Absent, Num(10), Num(50)},
        e \in {Absent, Num(2)}}

DecisionInputs == PriceDecisions \cup ShapeDecisions \cup TypeDecisions

NoDecision == Dict([symbol |-> Absent])

-----------------------------------------------------------------------------
(* json.loads, as src/strategy/llm_parser.py uses it.  A JSON value is a   *)
(* Python value: None, Str, Num, Bool, Float (kept as its text), List (a   *)
(* sequence) or DictV (a function from keys to values).  The texts are     *)
(* ASCII; the escapes \b and \uXXXX, whose characters a string of this     *)
(* module cannot hold, do not occur in them.                               *)

Bool(b) == [t |-> "bool", v |-> b]
Float(text) == [t |-> "float", v |-> text]
List(items) == [t |-> "list", v |-> items]
DictV(f) == [t |-> "dict", v |-> f]

JsonOk(val, next) == [ok |-> TRUE, val |-> val, next |-> next]
JsonFail == [ok |-> FALSE, val |-> None, next |-> 0]

JsonWhitespace == {" ", "\t", "\n", "\r"}
\* the characters json refuses unescaped inside a string (those below 0x20
\* that a TLA+ string can hold)
ControlChars == {"\t", "\n", "\r", "\f"}

StartsAt(s, i, pat) ==
    i >= 1 /\ i + Len(pat) - 1 <= Len(s) /\ SubSeq(s, i, i + Len(pat) - 1) = pat

SkipJsonWs(s, i) ==
    IF i > Len(s) THEN i
    ELSE Least({j \in i..(Len(s) + 1) : j = Len(s) + 1 \/ Char(s, j) \notin JsonWhitespace})

DigitValue(c) == CHOOSE n \in 0..9 : Char("0123456789", n + 1) = c

RECURSIVE NatOf(_)
NatOf(ds) ==
    IF Len(ds) = 0 THEN 0
    ELSE 10 * NatOf(SubSeq(ds, 1, Len(ds) - 1)) + DigitValue(Char(ds, Len(ds)))

\* (\.\d+)? at position k: the number of characters it takes
FractionSpan(s, k) ==
    IF StartsAt(s, k, ".") /\ DigitRun(s, k + 1) >= 1 THEN 1 + DigitRun(s, k + 1) ELSE 0

\* ([eE][-+]?\d+)? at position e0: the number of characters it takes
ExponentSpan(s, e0) ==
    LET sign == IF e0 + 1 <= Len(s) /\ Char(s, e0 + 1) \in {"+", "-"} THEN 1 ELSE 0
    IN  IF e0 <= Len(s) /\ Char(s, e0) \in {"e", "E"} /\ DigitRun(s, e0 + 1 + sign) >= 1
        THEN 1 + sign + DigitRun(s, e0 + 1 + sign) ELSE 0

\* (?:0|[1-9]\d*) at position j: the number of characters it takes
IntegerSpan(s, j) ==
    IF DigitRun(s, j) >= 1 /\ Char(s, j) = "0" THEN 1 ELSE DigitRun(s, j)

\* the position after the fraction and the exponent that follow position k
NumberStop(s, k) == k + FractionSpan(s, k) + ExponentSpan(s, k + FractionSpan(s, k))

\* the number s[i..stop-1], whose digits begin at j and whose integer part
\* ends before k: an int when neither fraction nor exponent follows
NumberValue(s, i, j, k, stop) ==
    IF stop = k
    THEN JsonOk(Num((IF j > i THEN -1 ELSE 1) * NatOf(SubSeq(s, j, k - 1))), stop)
    ELSE JsonOk(Float(SubSeq(s, i, stop - 1)), stop)

NumberFrom(s, i, j, n) ==
    IF n = 0 THEN JsonFail ELSE NumberValue(s, i, j, j + n, NumberStop(s, j + n))

\* a number: (-?(?:0|[1-9]\d*))(\.\d+)?([eE][-+]?\d+)?
JsonNumber(s, i) ==
    IF StartsAt(s, i, "-")
    THEN NumberFrom(s, i, i + 1, IntegerSpan(s, i + 1))
    ELSE NumberFrom(s, i, i, IntegerSpan(s, i))

EscapeChar(c) ==
    CASE c = "\"" -> "\""
      [] c = "\\" -> "\\"
      [] c = "/" -> "/"
      [] c = "f" -> "\f"
      [] c = "n" -> "\n"
      [] c = "r" -> "\r"
      [] c = "t" -> "\t"

EscapeNames == {"\"", "\\", "/", "f", "n", "r", "t"}

\* the number of backslashes that end just before position k and begin no
\* earlier than position i
BackslashesBefore(s, i, k) ==
    LET stops == {j \in (i - 1)..(k - 1) : j = i - 1 \/ Char(s, j) # "\\"}
    IN  (k - 1) - (CHOOSE j \in stops : \A x \in stops : x <= j)

\* whether the character at k, in a string whose body begins at i, is the
\* second character of an escape
Escaped(s, i, k) == BackslashesBefore(s, i, k) % 2 = 1

\* the body s[i..hi] of a string with its escapes replaced
RECURSIVE Unescape(_, _, _)
Unescape(s, i, hi) ==
    LET At(t, j) == j <= hi /\ Char(t, j) = "\\"
        b == FirstFrom(s, i, At)
    IN  IF b = 0 THEN SubSeq(s, i, hi)
        ELSE SubSeq(s, i, b - 1) \o EscapeChar(Char(s, b + 1)) \o Unescape(s, b + 2, hi)

\* the string whose body begins at position i (just after the opening quote)
JsonString(s, i) ==
    LET Closing(t, j) == Char(t, j) = "\"" /\ ~Escaped(t, i, j)
        close == FirstFrom(s, i, Closing)
        well_formed ==
            \A k \in i..(close - 1) :
                /\ Char(s, k) \notin ControlChars
                /\ (Char(s, k) = "\\" /\ ~Escaped(s, i, k)) => Char(s, k + 1) \in EscapeNames
    IN  IF close = 0 \/ ~well_formed THEN JsonFail
        ELSE JsonOk(Str(Unescape(s, i, close - 1)), close + 1)

RECURSIVE JsonValue(_, _)
RECURSIVE JsonMembers(_, _, _)
RECURSIVE JsonElements(_, _, _)

\* the members of an object from position i (at a key's opening quote)
JsonMembers(s, i, acc) ==
    IF ~StartsAt(s, i, "\"") THEN JsonFail
    ELSE LET key == JsonString(s, i + 1)
             c == SkipJsonWs(s, key.next)
             val == JsonValue(s, SkipJsonWs(s, c + 1))
             d == SkipJsonWs(s, val.next)
             acc2 == (key.val.v :> val.val) @@ acc
         IN  IF ~key.ok THEN JsonFail
             ELSE IF ~StartsAt(s, c, ":") THEN JsonFail
             ELSE IF ~val.ok THEN JsonFail
             ELSE IF StartsAt(s, d, "}") THEN JsonOk(DictV(acc2), d + 1)
             ELSE IF StartsAt(s, d, ",") THEN JsonMembers(s, SkipJsonWs(s, d + 1), acc2)
             ELSE JsonFail

\* the elements of an array from position i (at a value)
JsonElements(s, i, acc) ==
    LET val == JsonValue(s, i)
        d == SkipJsonWs(s, val.next)
    IN  IF ~val.ok THEN JsonFail
        ELSE IF StartsAt(s, d, "]") THEN JsonOk(List(Append(acc, val.val)), d + 1)
        ELSE IF StartsAt(s, d, ",")
             THEN JsonElements(s, SkipJsonWs(s, d + 1), Append(acc, val.val))
        ELSE JsonFail

JsonValue(s, i) ==
    IF i > Len(s) THEN JsonFail
    ELSE LET c == Char(s, i)
         IN  IF c = "\"" THEN JsonString(s, i + 1)
             ELSE IF c = "{"
                  THEN LET j == SkipJsonWs(s, i + 1)
                       IN  IF StartsAt(s, j, "}") THEN JsonOk(DictV(<<>>), j + 1)
                           ELSE JsonMembers(s, j, <<>>)
             ELSE IF c = "["
                  THEN LET j == SkipJsonWs(s, i + 1)
                       IN  IF StartsAt(s, j, "]") THEN JsonOk(List(<<>>), j + 1)
                           ELSE JsonElements(s, j, <<>>)
             ELSE IF StartsAt(s, i, "null") THEN JsonOk(None, i + 4)
             ELSE IF StartsAt(s, i, "true") THEN JsonOk(Bool(TRUE), i + 4)
             ELSE IF StartsAt(s, i, "false") THEN JsonOk(Bool(FALSE), i + 5)
             ELSE IF StartsAt(s, i, "NaN") THEN JsonOk(Float("NaN"), i + 3)
             ELSE IF StartsAt(s, i, "Infinity") THEN JsonOk(Float("Infinity"), i + 8)
             ELSE IF StartsAt(s, i, "-Infinity") THEN JsonOk(Float("-Infinity"), i + 9)
             ELSE IF c = "-" \/ c \in Digits THEN JsonNumber(s, i)
             ELSE JsonFail

\* the value read from the text, which nothing but whitespace may follow
WholeText(s, r) ==
    IF r.ok /\ SkipJsonWs(s, r.next) = Len(s) + 1 THEN r ELSE JsonFail

\* json.loads(s): ok = FALSE stands for json.JSONDecodeError
json_loads(s) == WholeText(s, JsonValue(s, SkipJsonWs(s, 1)))

-----------------------------------------------------------------------------
(* src/strategy/llm_parser.py: the regular expressions, as scans *)

\* \s* from position i on: the position of the first character it leaves
SkipSpace(s, i) ==
    IF i > Len(s) THEN i
    ELSE Least({j \in i..(Len(s) + 1) : j = Len(s) + 1 \/ Char(s, j) \notin Whitespace})

\* str.find from position i: the first position of pat, 0 when there is none
Find(s, pat, i) ==
    LET At(t, j) == StartsAt(t, j, pat)
    IN  FirstFrom(s, i, At)

Match(group) == [found |-> TRUE, group |-> group]
NoMatch == [found |-> FALSE, group |-> ""]

TagOpen(tag) == "<" \o tag \o ">"
TagClose(tag) == "</" \o tag \o ">"
\* A string of this module cannot hold the backquote: the texts write it as
\* an apostrophe, a character the parser gives no meaning of its own.
Backquote == "'"
Fence == Backquote \o Backquote \o Backquote
JsonFence == Fence \o "json"

\* The tag patterns are searched under re.IGNORECASE: their literals are
\* lower case and are looked for in `low`, the text in lower case (of the
\* same length, position for position).

\* \s*'''\s*</tag> at position e
FencedTail(low, e, tag) ==
    LET j == SkipSpace(low, e)
    IN  StartsAt(low, j, Fence) /\ StartsAt(low, SkipSpace(low, j + 3), TagClose(tag))

\* (.*?) followed by the fenced tail: the first position from e on where
\* the tail matches, 0 when there is none
FirstFencedTail(low, e, tag) ==
    LET At(t, j) == FencedTail(t, j, tag)
    IN  FirstFrom(low, e, At)

\* <tag>\s*FENCE\s*(.*?)\s*'''\s*</tag> anchored at the opening tag at p
FencedAt(s, low, p, tag, fence) ==
    LET a == SkipSpace(low, p + Len(TagOpen(tag)))
        b == SkipSpace(low, a + Len(fence))
        e == FirstFencedTail(low, b, tag)
    IN  IF StartsAt(low, a, fence) /\ e # 0 THEN Match(SubSeq(s, b, e - 1))
        ELSE NoMatch

\* re.search of the fenced pattern: the leftmost opening tag it matches at
RECURSIVE FencedSearch(_, _, _, _, _)
FencedSearch(s, low, from, tag, fence) ==
    LET p == Find(low, TagOpen(tag), from)
        m == FencedAt(s, low, p, tag, fence)
    IN  IF p = 0 THEN NoMatch
        ELSE IF m.found THEN m
        ELSE FencedSearch(s, low, p + 1, tag, fence)

\* re.search(<tag>(.*?)</tag>)
PlainSearch(s, low, tag) ==
    LET p == Find(low, TagOpen(tag), 1)
        q == IF p = 0 THEN 0 ELSE Find(low, TagClose(tag), p + Len(TagOpen(tag)))
    IN  IF q = 0 THEN NoMatch ELSE Match(SubSeq(s, p + Len(TagOpen(tag)), q - 1))

\* re.sub(r'^'''json\s*', '', content) and re.sub(r'^'''\s*', '', content)
DropLeading(content, fence) ==
    IF StartsAt(content, 1, fence)
    THEN SubSeq(content, SkipSpace(content, Len(fence) + 1), Len(content))
    ELSE content

\* re.sub(r'\s*'''$', '', content)
DropTrailingFence(content) ==
    LET n == IF Len(content) >= 1 /\ Char(content, Len(content)) = "\n"
             THEN Len(content) - 1 ELSE Len(content)
        body == SubSeq(content, 1, n - 3)
    IN  IF n >= 3 /\ SubSeq(content, n - 2, n) = Fence
        THEN RStrip(body) \o SubSeq(content, n + 1, Len(content))
        ELSE content

supported_tags == <<"decision", "final_vote">>

\* the match of the first pattern that matches, in the order of `patterns`
FirstMatch(m1, m2, m3) == IF m1.found THEN m1 ELSE IF m2.found THEN m2 ELSE m3

\* the three patterns searched in the text
SearchTag(text, low, tag) ==
    FirstMatch(FencedSearch(text, low, 1, tag, JsonFence),
               FencedSearch(text, low, 1, tag, Fence),
               PlainSearch(text, low, tag))

\* match.group(1).strip(), its fence marks removed under a supported tag
TagContent(tag, content) ==
    IF \E k \in 1..Len(supported_tags) : supported_tags[k] = tag
    THEN Str(DropTrailingFence(DropLeading(DropLeading(content, JsonFence), Fence)))
    ELSE Str(content)

ContentOf(tag, m) == IF ~m.found THEN None ELSE TagContent(tag, Strip(m.group))

\* _extract_tag_content(text, tag): None, or the content as a Str
extract_tag_content(text, tag) == ContentOf(tag, SearchTag(text, Lower(text), tag))

-----------------------------------------------------------------------------
(* src/strategy/llm_parser.py: extraction of the JSON text *)

\* a plausible slip: brackets counted inside string literals too
BalancedStep_ignoring_strings(text, open_char, close_char, i, st) ==
    IF Char(text, i) = open_char THEN [st EXCEPT !.count = st.count + 1]
    ELSE IF Char(text, i) = close_char
         THEN [st EXCEPT !.count = st.count - 1,
                         !.stop = IF st.count - 1 = 0 THEN i ELSE 0]
    ELSE st

\* One iteration of the loop of _extract_balanced_json, at position i: st
\* holds the locals count, in_string and escape_next, and stop, the position
\* at which the loop returned (0 while it runs).
BalancedStep(text, open_char, close_char, i, st) ==
    LET char == Char(text, i)
    IN  IF st.escape_next THEN [st EXCEPT !.escape_next = FALSE]
        ELSE IF char = "\\" /\ st.in_string THEN [st EXCEPT !.escape_next = TRUE]
        ELSE IF char = "\"" THEN [st EXCEPT !.in_string = ~st.in_string]
        ELSE IF ~st.in_string /\ char = open_char THEN [st EXCEPT !.count = st.count + 1]
        ELSE IF ~st.in_string /\ char = close_char
             THEN [st EXCEPT !.count = st.count - 1,
                             !.stop = IF st.count - 1 = 0 THEN i ELSE 0]
        ELSE st

\* The iterations at positions lo..hi in order, stopping where the loop
\* returns; the range is walked one half after the other.
RECURSIVE BalancedScan(_, _, _, _, _, _)
BalancedScan(text, open_char, close_char, lo, hi, st) ==
    IF st.stop # 0 \/ lo > hi THEN st
    ELSE IF lo = hi THEN BalancedStep(text, open_char, close_char, lo, st)
    ELSE BalancedScan(text, open_char, close_char, (lo + hi) \div 2 + 1, hi,
                      BalancedScan(text, open_char, close_char, lo, (lo + hi) \div 2, st))

\* _extract_balanced_json(text, open_char, close_char): the slice as a Str
\* when json.loads accepts it, None otherwise
extract_balanced_json(text, open_char, close_char) ==
    LET start_idx == Find(text, open_char, 1)
        stop == BalancedScan(text, open_char, close_char, start_idx, Len(text),
                             [count |-> 0, in_string |-> FALSE, escape_next |-> FALSE,
                              stop |-> 0]).stop
        json_str == SubSeq(text, start_idx, stop)
    IN  IF start_idx = 0 \/ stop = 0 THEN None
        ELSE IF json_loads(json_str).ok THEN Str(json_str)
        ELSE None

\* \{.*?\}\s*\] with the `{` at position a: the position after the match,
\* 0 when there is none
ArrayTail(s, e) ==
    LET At(t, j) == Char(t, j) = "}" /\ StartsAt(t, SkipSpace(t, j + 1), "]")
        first == FirstFrom(s, e, At)
    IN  IF first = 0 THEN 0 ELSE SkipSpace(s, first + 1) + 1

\* re.search(r'\[\s*\{.*?\}\s*\]', text, re.DOTALL)
RECURSIVE ArraySearch(_, _)
ArraySearch(s, from) ==
    LET p == Find(s, "[", from)
        a == SkipSpace(s, p + 1)
        stop == IF StartsAt(s, a, "{") THEN ArrayTail(s, a + 1) ELSE 0
    IN  IF p = 0 THEN NoMatch
        ELSE IF stop # 0 THEN Match(SubSeq(s, p, stop - 1))
        ELSE ArraySearch(s, p + 1)

\* [^{}]*(?:\{[^{}]*\}[^{}]*)*\} read one character at a time: inner tells
\* whether an inner brace is open, stop is the position after the match (0
\* while it is sought), failed that no match begins at this brace
ObjectStep(s, i, st) ==
    IF Char(s, i) = "{"
    THEN (IF st.inner THEN [st EXCEPT !.failed = TRUE] ELSE [st EXCEPT !.inner = TRUE])
    ELSE IF Char(s, i) = "}"
    THEN (IF st.inner THEN [st EXCEPT !.inner = FALSE] ELSE [st EXCEPT !.stop = i + 1])
    ELSE st

RECURSIVE ObjectScan(_, _, _, _)
ObjectScan(s, lo, hi, st) ==
    IF st.stop # 0 \/ st.failed \/ lo > hi THEN st
    ELSE IF lo = hi THEN ObjectStep(s, lo, st)
    ELSE ObjectScan(s, (lo + hi) \div 2 + 1, hi, ObjectScan(s, lo, (lo + hi) \div 2, st))

ObjectTail(s, i) ==
    ObjectScan(s, i, Len(s), [inner |-> FALSE, stop |-> 0, failed |-> FALSE]).stop

\* re.search(r'\{[^{}]*(?:\{[^{}]*\}[^{}]*)*\}', text, re.DOTALL)
RECURSIVE ObjectSearch(_, _)
ObjectSearch(s, from) ==
    LET p == Find(s, "{", from)
        stop == ObjectTail(s, p + 1)
    IN  IF p = 0 THEN NoMatch
        ELSE IF stop # 0 THEN Match(SubSeq(s, p, stop - 1))
        ELSE ObjectSearch(s, p + 1)

\* `if m: return m.group(0)`
GroupOr(m, otherwise) == IF m.found THEN Str(m.group) ELSE otherwise

\* _extract_json_from_text(text): None, or the JSON text as a Str
extract_json_from_text(text) ==
    OrElse(extract_balanced_json(text, "[", "]"),
           OrElse(extract_balanced_json(text, "{", "}"),
                  GroupOr(ArraySearch(text, 1), GroupOr(ObjectSearch(text, 1), None))))

-----------------------------------------------------------------------------
(* src/strategy/llm_parser.py: _normalize_characters and the JSON repair *)

\* \d+\.?\d* at position i: the number of characters it takes, 0 for no match
NumberSpan(s, i) ==
    LET d1 == DigitRun(s, i)
        dot == IF StartsAt(s, i + d1, ".") THEN 1 ELSE 0
    IN  IF d1 = 0 THEN 0 ELSE d1 + dot + DigitRun(s, i + d1 + dot)

\* (\d+\.?\d*)\s*~\s*\d+\.?\d* at position i: the position after the match,
\* 0 for no match
RangeStop(s, i) ==
    LET tilde == SkipSpace(s, i + NumberSpan(s, i))
        second == SkipSpace(s, tilde + 1)
    IN  IF NumberSpan(s, i) >= 1 /\ StartsAt(s, tilde, "~") /\ NumberSpan(s, second) >= 1
        THEN second + NumberSpan(s, second)
        ELSE 0

\* re.sub(r'(\d+\.?\d*)\s*~\s*\d+\.?\d*', r'\1', text)
RECURSIVE DropRanges(_, _)
DropRanges(s, i) ==
    LET At(t, j) == RangeStop(t, j) # 0
        m == FirstFrom(s, i, At)
    IN  IF m = 0 THEN SubSeq(s, i, Len(s))
        ELSE SubSeq(s, i, m + NumberSpan(s, m) - 1) \o DropRanges(s, RangeStop(s, m))

\* m.group(1).replace(',', '')
RECURSIVE RemoveCommas(_)
RemoveCommas(s) ==
    IF Len(s) = 0 THEN ""
    ELSE (IF Head(s) = "," THEN "" ELSE Head(s)) \o RemoveCommas(Tail(s))

\* the longest run of (?:,\d{3}) groups at position g
RECURSIVE GroupChain(_, _)
GroupChain(s, g) ==
    IF StartsAt(s, g, ",") /\ DigitRun(s, g + 1) >= 3 THEN 1 + GroupChain(s, g + 4) ELSE 0

\* (?:\.\d+)? at position i: the position after it
FractionStop(s, i) ==
    IF StartsAt(s, i, ".") /\ DigitRun(s, i + 1) >= 1
    THEN i + 1 + DigitRun(s, i + 1) ELSE i

\* "(\d{1,3}(?:,\d{3})+(?:\.\d+)?)" at position i: the position of the
\* closing quote, 0 for no match
QuotedStop(s, i) ==
    LET d == DigitRun(s, i + 1)
        k == GroupChain(s, i + 1 + d)
        stop == FractionStop(s, i + 1 + d + 4 * k)
    IN  IF StartsAt(s, i, "\"") /\ d \in 1..3 /\ k >= 1 /\ StartsAt(s, stop, "\"")
        THEN stop ELSE 0

\* re.sub of the quoted thousands pattern
RECURSIVE DropQuotedSeparators(_, _)
DropQuotedSeparators(s, i) ==
    LET At(t, j) == QuotedStop(t, j) # 0
        m == FirstFrom(s, i, At)
        stop == QuotedStop(s, m)
    IN  IF m = 0 THEN SubSeq(s, i, Len(s))
        ELSE SubSeq(s, i, m) \o RemoveCommas(SubSeq(s, m + 1, stop - 1)) \o "\""
             \o DropQuotedSeparators(s, stop + 1)

Closers == {",", "}", "]"}

\* the number at position a with k groups, then \s*([,}\]]): the regular
\* expression gives groups back until the closer is found
RECURSIVE BareTry(_, _, _, _)
BareTry(s, a, g0, k) ==
    LET stop == FractionStop(s, g0 + 4 * k)
        c == SkipSpace(s, stop)
    IN  IF k = 0 THEN [found |-> FALSE, digits |-> "", closer |-> "", next |-> 0]
        ELSE IF c <= Len(s) /\ Char(s, c) \in Closers
             THEN [found |-> TRUE, digits |-> SubSeq(s, a, stop - 1),
                   closer |-> Char(s, c), next |-> c + 1]
        ELSE BareTry(s, a, g0, k - 1)

\* :\s*(\d{1,3}(?:,\d{3})+(?:\.\d+)?)\s*([,}\]]) at position i
BareAt(s, i) ==
    LET a == SkipSpace(s, i + 1)
        d == DigitRun(s, a)
    IN  IF StartsAt(s, i, ":") /\ d \in 1..3
        THEN BareTry(s, a, a + d, GroupChain(s, a + d))
        ELSE BareTry(s, a, a, 0)

\* re.sub of the bare thousands pattern
RECURSIVE DropBareSeparators(_, _)
DropBareSeparators(s, i) ==
    LET At(t, j) == BareAt(t, j).found
        first == FirstFrom(s, i, At)
        m == BareAt(s, first)
    IN  IF first = 0 THEN SubSeq(s, i, Len(s))
        ELSE SubSeq(s, i, first - 1) \o ": " \o RemoveCommas(m.digits) \o m.closer
             \o DropBareSeparators(s, m.next)

\* _normalize_characters(text).  Its first step replaces full-width and
\* typographic characters, none of which an ASCII text has.
normalize_characters(text) ==
    DropBareSeparators(DropQuotedSeparators(DropRanges(text, 1), 1), 1)

\* re.sub(r',\s*}', '}', text) and re.sub(r',\s*\]', ']', text)
RECURSIVE DropCommaBefore(_, _, _)
DropCommaBefore(s, closer, i) ==
    LET At(t, j) == Char(t, j) = "," /\ StartsAt(t, SkipSpace(t, j + 1), closer)
        m == FirstFrom(s, i, At)
    IN  IF m = 0 THEN SubSeq(s, i, Len(s))
        ELSE SubSeq(s, i, m - 1) \o closer
             \o DropCommaBefore(s, closer, SkipSpace(s, m + 1) + 1)

\* `data[0] if isinstance(data, list) and len(data) > 0 else data`
FirstIfList(data) ==
    IF data.t = "list" /\ Len(data.v) > 0 THEN data.v[1] ELSE data

\* the second attempt: `return data`, or {} on json.JSONDecodeError
Repaired(r) == IF r.ok THEN FirstIfList(r.val) ELSE DictV(<<>>)

\* the first attempt, and the second with the trailing commas removed
Loaded(normalized, direct) ==
    IF direct.ok THEN FirstIfList(direct.val)
    ELSE Repaired(json_loads(DropCommaBefore(DropCommaBefore(normalized, "}", 1), "]", 1)))

LoadNormalized(normalized) == Loaded(normalized, json_loads(normalized))

\* _parse_json_with_fallback(json_str)
parse_json_with_fallback(json_str) == LoadNormalized(normalize_characters(json_str))

-----------------------------------------------------------------------------
(* src/strategy/llm_parser.py: LLMOutputParser.parse *)

\* a float is zero when its mantissa has no digit but 0
RECURSIVE ZeroMantissa(_)
ZeroMantissa(text) ==
    IF Len(text) = 0 \/ Head(text) \in {"e", "E"} THEN TRUE
    ELSE IF Head(text) \in Digits \ {"0"} THEN FALSE
    ELSE ZeroMantissa(Tail(text))

\* `not x` for any value json.loads can return
Not(x) ==
    CASE x.t = "bool" -> ~x.v
      [] x.t = "float" -> x.v \notin {"NaN", "Infinity", "-Infinity"} /\ ZeroMantissa(x.v)
      [] x.t = "list" -> Len(x.v) = 0
      [] x.t = "dict" -> DOMAIN x.v = {}
      [] OTHER -> ~Truthy(x)

\* whether `'action' in x` raises TypeError: x is not a container
MembershipRaises(x) == x.t \in {"num", "float", "bool", "none"}

\* `'action' in x`: a key of a dict, an element of a list, a substring of a
\* string
ContainsAction(x) ==
    CASE x.t = "dict" -> "action" \in DOMAIN x.v
      [] x.t = "list" -> \E k \in 1..Len(x.v) : x.v[k].t = "str" /\ x.v[k].v = "action"
      [] x.t = "str" -> Find(x.v, "action", 1) # 0

\* _get_fallback_decision()
get_fallback_decision ==
    DictV([symbol |-> Str("BTCUSDT"), action |-> Str("wait"), confidence |-> Num(0),
           reasoning |-> Str("Parse error, fallback to safe wait decision")])

ParseResult(llm_response, reasoning, dec, parse_error) ==
    [reasoning |-> reasoning, decision |-> dec, raw_response |-> llm_response,
     parse_error |-> parse_error]

\* the value decision_json has after the loop over supported_tags
RECURSIVE TagLoop(_, _)
TagBreak(text, k, decision_json) ==
    IF Not(decision_json) /\ k < Len(supported_tags) THEN TagLoop(text, k + 1)
    ELSE decision_json

TagLoop(text, k) == TagBreak(text, k, extract_tag_content(text, supported_tags[k]))

\* step 3: `if not decision_json`, the search in the whole response
SearchDecision(text, tagged) ==
    IF Not(tagged) THEN extract_json_from_text(text) ELSE tagged

\* step 4: `if decision_json`, the decision parsed or the fallback
LoadDecision(decision_json) ==
    IF Not(decision_json) THEN get_fallback_decision
    ELSE parse_json_with_fallback(decision_json.v)

\* step 5 and the return: raised = TRUE stands for the TypeError of `in` on a
\* decision that is not a container
GuardDecision(llm_response, reasoning, decision_obj) ==
    IF ~Not(decision_obj) /\ MembershipRaises(decision_obj)
    THEN [raised |-> TRUE, result |-> ParseResult(llm_response, "", None, FALSE)]
    ELSE [raised |-> FALSE,
          result |-> ParseResult(
              llm_response,
              IF Not(reasoning) THEN "" ELSE reasoning.v,
              IF Not(decision_obj) \/ ~ContainsAction(decision_obj)
              THEN get_fallback_decision ELSE decision_obj,
              FALSE)]

\* The body of the try block of parse: raised = TRUE stands for an exception
\* leaving it (re.search on a response that is not a string, `in` on a
\* decision that is not a container).
parse_try(llm_response) ==
    IF ~IsStr(llm_response)
    THEN [raised |-> TRUE, result |-> ParseResult(llm_response, "", None, FALSE)]
    ELSE GuardDecision(llm_response,
                       extract_tag_content(llm_response.v, "reasoning"),
                       LoadDecision(SearchDecision(llm_response.v, TagLoop(llm_response.v, 1))))

NotParsed == ParseResult(None, "", None, FALSE)

\* no extraction call made yet
NotScanned == [done |-> FALSE, array |-> None, object |-> None, found |-> None]

\* the handler of `except Exception`
Handled(llm_response, body) ==
    IF body.raised
    THEN ParseResult(llm_response, "", get_fallback_decision, TRUE)
    ELSE body.result

\* parse(llm_response)
parse(llm_response) == Handled(llm_response, parse_try(llm_response))

-----------------------------------------------------------------------------
(* main.py: MultiAgentTradingBot.run_trading_cycle                         *)
(*                                                                         *)
(* The cycle is followed from one awaited or external call to the next.    *)
(* Every such call (data sync, analysts, decision core, risk audit, data   *)
(* saver, exchange client) either returns or raises.  Prices are whole     *)
(* numbers whose percentages are whole too; a quantity is kept in          *)
(* thousandths.                                                            *)

\* MultiAgentTradingBot.__init__ defaults
max_position_size == 100
leverage == 1
stop_loss_pct == 1
take_profit_pct == 2

Min(a, b) == IF a <= b THEN a ELSE b

\* _build_order_params(action, current_price, confidence), then the context
\* run_trading_cycle injects (regime, position, confidence)
build_order_params(action, price, confidence) ==
    LET position_multiplier == Min(confidence * 120, 100)  \* in hundredths
        adjusted_position == max_position_size * position_multiplier
        quantity == (adjusted_position * 10) \div price
        stop_loss == IF action = "long"
                     THEN (price * (100 - stop_loss_pct)) \div 100
                     ELSE (price * (100 + stop_loss_pct)) \div 100
        take_profit == IF action = "long"
                       THEN (price * (100 + take_profit_pct)) \div 100
                       ELSE (price * (100 - take_profit_pct)) \div 100
    IN  [action |-> Str(action), entry_price |-> Num(price),
         stop_loss |-> Num(stop_loss), take_profit |-> Num(take_profit),
         quantity |-> Num(quantity), leverage |-> Num(leverage),
         confidence |-> Num(confidence), regime |-> None, position |-> None]

apply_corrections_printed_only(params, corrections) == [params |-> params, error |-> ""]

\* The loop over audit_result.corrections.items(): each entry is printed
\* with order_params[key] (a KeyError when the key is absent) and then
\* written.  error is the KeyError's text, "" when the loop completed.
RECURSIVE apply_corrections(_, _)
apply_corrections(params, corrections) ==
    IF Len(corrections) = 0 THEN [params |-> params, error |-> ""]
    ELSE IF ~Has(params, Head(corrections).key)
         THEN [params |-> params, error |-> "'" \o Head(corrections).key \o "'"]
    ELSE apply_corrections([params EXCEPT ![Head(corrections).key] = Head(corrections).value],
                           Tail(corrections))

\* `if not audit_result.passed`
blocked_unless_cautious(audit) == ~audit.passed /\ audit.risk_level = "dangerous"
blocked(audit) == ~audit.passed

\* the dict a return statement builds
Result(status, action, details) ==
    DictV([status |-> Str(status), action |-> Str(action), details |-> DictV(details)])

\* an exception that leaves run_trading_cycle
Exc(message) == [t |-> "exception", v |-> message]

\* `except Exception as e`: the cycle returns an error result
propagate(message) == Exc(message)
handle_exception(message) ==
    DictV([status |-> Str("error"), details |-> DictV([error |-> Str(message)])])

\* the simulated execution of test mode, or the order the client placed
Execution(kind, params) == [kind |-> kind, params |-> params]

\* trade_record
TradeRecord(params, price, status) ==
    [action |-> Upper(params.action.v), price |-> price,
     quantity |-> params.quantity, confidence |-> params.confidence,
     status |-> status]

trade_history_limit == 50

\* global_state.trade_history.insert(0, trade_record), and the pop beyond 50
record_trade(history, trade_record) ==
    LET inserted == <<trade_record>> \o history
    IN  IF Len(inserted) > trade_history_limit
        THEN SubSeq(inserted, 1, Len(inserted) - 1) ELSE inserted

-----------------------------------------------------------------------------
(* The decision specification: normalize_action and validate applied to     *)
(* every enumerated input                                                  *)

ProtocolIdle == pAction = None /\ pSide = None /\ pOut = Str("idle") /\ pWord = ""
ValidatorIdle ==
    /\ decision0 = NoDecision
    /\ decision = NoDecision
    /\ vresult = Idle
    /\ decision1 = NoDecision
    /\ vresult2 = Idle
ParserIdle == response = None /\ parsed = NotParsed /\ scanned = NotScanned
CycleIdle ==
    /\ test_mode = FALSE
    /\ pc = "off"
    /\ cycle_counter = 0
    /\ current_price = 0
    /\ vote_result = None
    /\ order_params = None
    /\ audit_result = None
    /\ guardian_status = ""
    /\ executions = <<>>
    /\ trade_history = <<>>
    /\ result = None
NoCall == [status |-> "off", value |-> None]
LlmIdle ==
    /\ max_retries = 0
    /\ attempt = 0
    /\ last_error = None
    /\ posted = <<>>
    /\ slept = <<>>
    /\ reply = NoCall
LoopIdle ==
    /\ execution_mode = "Running"
    /\ loop_pc = "off"
    /\ current_mode = None
    /\ wait_i = 0

MetricsIdle == equity_curve = <<>> /\ trades = <<>> /\ metrics = None
TrendIdle == snapshot = None /\ trend = None
StrategyIdle == stable_5m = 0 /\ ind = None /\ positions = <<>> /\ signal = None
StatsIdle ==
    /\ stats_by_provider = <<>>
    /\ stats_by_model = <<>>
    /\ lock = None
    /\ calls = <<>>
StateIdle ==
    /\ now = 0
    /\ equity_history = <<>>
    /\ decision_history = <<>>
    /\ recent_logs = <<>>
    /\ account_overview = None
    /\ latest_decision = None
    /\ critic_confidence = None
    /\ last_update = None
MoreIdle == MetricsIdle /\ TrendIdle /\ StrategyIdle /\ StatsIdle /\ StateIdle

InitProtocol ==
    /\ \E a \in ActionInputs : pAction = a.value /\ pWord = a.word
    /\ pSide \in SideInputs
    /\ pOut = None
    /\ ValidatorIdle
    /\ ParserIdle
    /\ CycleIdle
    /\ LlmIdle
    /\ LoopIdle
    /\ MoreIdle

InitValidator ==
    /\ ProtocolIdle
    /\ decision0 \in DecisionInputs
    /\ decision = decision0
    /\ vresult = Pending
    /\ decision1 = decision0
    /\ vresult2 = Pending
    /\ ParserIdle
    /\ CycleIdle
    /\ LlmIdle
    /\ LoopIdle
    /\ MoreIdle

InitDecision == InitProtocol \/ InitValidator

\* a call normalize_action(pAction, position_side = pSide)
Normalize ==
    /\ pOut = None
    /\ pOut' = Str(normalize_action(pAction, pSide))
    /\ UNCHANGED <<pAction, pSide, pWord, valVars, parserVars, cycleVars, llmVars, loopVars, moreVars>>

\* a call validator.validate(decision)
Validate ==
    /\ vresult = Pending
    /\ decision' = validate(decision).decision
    /\ vresult' = validate(decision).result
    /\ decision1' = validate(decision).decision
    /\ UNCHANGED <<decision0, vresult2, protoVars, parserVars, cycleVars, llmVars, loopVars, moreVars>>

\* a second call validator.validate(decision) on the dict the first call left
Revalidate ==
    /\ vresult.status \in {"returned", "raised"}
    /\ vresult2 = Pending
    /\ decision' = validate(decision).decision
    /\ vresult2' = validate(decision).result
    /\ UNCHANGED <<decision0, vresult, decision1, protoVars, parserVars, cycleVars, llmVars, loopVars, moreVars>>

NextDecision == Normalize \/ Validate \/ Revalidate

SpecDecision == InitDecision /\ [][NextDecision]_vars

-----------------------------------------------------------------------------
(* The parser specification: parse applied to every enumerated response    *)

\* what a model may put where the decision JSON is expected
Payloads ==
    {"{\"action\":\"long\"}",
     "[{\"action\":\"hold\"}]",
     "{\"action\":\"open_long\",\"confidence\":85,\"m\":{\"k\":[1,2]}}",
     "{\"a\":1}",
     "\"action\"",
     "\"no transaction\"",
     "[\"action\"]",
     "[[\"action\"]]",
     "[1]", "[0]", "[]", "{}", "5", "0", "0.0", "true", "null", "",
     "{\"action\":\"long\",}",
     "[{\"action\":\"short\",},]",
     "{\"action\":\"wait\"",
     "{\"note\":\"}\",\"action\":\"wait\"}",
     "{\"action\":\"wait\",\"p\": 84,710}",
     "{\"action\":\"wait\",\"p\":\"84,710.5\"}",
     "{\"action\":\"wait\",\"p\":85~86}",
     "{action: wait}",
     "{\"a\": \"x}y\", \"action\": \"wait\"}",
     "{\"a\": \"x\\\"}y{\", \"action\": \"hold\"}",
     "{\"a\": \"[\", \"action\": \"wait\"}",
     "{\"action\": \"long\", \"targets\": [1, 2]}",
     "[{\"action\":\"wait\"}, {\"a\": [1"}

\* how the payload is wrapped: bare, in a tag, in a fenced block, in both
Wrap(kind, payload) ==
    CASE kind = "bare" -> payload
      [] kind = "decision" -> "<decision>" \o payload \o "</decision>"
      [] kind = "fenced_decision" ->
            "<decision>\n" \o JsonFence \o "\n" \o payload \o "\n" \o Fence \o "\n</decision>"
      [] kind = "upper_decision" ->
            "<DECISION>" \o Fence \o payload \o Fence \o "</DECISION>"
      [] kind = "final_vote" -> "<decision> </decision><final_vote>" \o payload \o "</final_vote>"
      [] kind = "fence" -> JsonFence \o "\n" \o payload \o "\n" \o Fence
      [] kind = "open_fence" -> "<decision>" \o JsonFence \o " " \o payload \o "</decision>"

Wrappers ==
    {"bare", "decision", "fenced_decision", "upper_decision", "final_vote",
     "fence", "open_fence"}

Prefixes == {"", "<reasoning> up\n</reasoning>\n", "see [ref] {x} "}
Suffixes == {"", " }]"}

ResponseInputs ==
    {None}
    \cup {Str(pre \o Wrap(w, p) \o suf) :
            pre \in Prefixes, w \in Wrappers, p \in Payloads, suf \in Suffixes}

InitParser ==
    /\ ProtocolIdle
    /\ ValidatorIdle
    /\ response \in ResponseInputs
    /\ parsed = NotParsed
    /\ scanned = NotScanned
    /\ CycleIdle
    /\ LlmIdle
    /\ LoopIdle
    /\ MoreIdle

\* a call parser.parse(response)
Parse ==
    /\ parsed = NotParsed
    /\ parsed' = parse(response)
    /\ UNCHANGED <<response, scanned, protoVars, valVars, cycleVars, llmVars, loopVars, moreVars>>

\* calls of _extract_balanced_json, for either bracket, and of
\* _extract_json_from_text on the response text
Extract ==
    /\ scanned = NotScanned
    /\ IsStr(response)
    /\ scanned' = [done |-> TRUE,
                   array |-> extract_balanced_json(response.v, "[", "]"),
                   object |-> extract_balanced_json(response.v, "{", "}"),
                   found |-> extract_json_from_text(response.v)]
    /\ UNCHANGED <<response, parsed, protoVars, valVars, cycleVars, llmVars, loopVars, moreVars>>

NextParser == Parse \/ Extract

SpecParser == InitParser /\ [][NextParser]_vars

-----------------------------------------------------------------------------
(* The cycle specification: run_trading_cycle, invoked up to MaxCycles     *)
(* times on one bot                                                        *)

MaxCycles == 2

Prices == {100}
Confidences == {0, 60, 100}
ErrorMessages == {"Connection reset by peer", ""}

\* what decision_core.make_decision returns
Vote(action, confidence) ==
    [t |-> "vote", action |-> action, confidence |-> confidence,
     reason |-> "weighted vote of the analysts"]

\* the votes in the words _build_order_params documents (long, short, hold)
\* and in those of the action protocol (open_long, open_short, wait)
VoteResults ==
    {Vote(a, c) : a \in {"long", "short", "hold"}, c \in Confidences}
    \cup {Vote(a, 60) : a \in {"open_long", "open_short", "wait"}}

Correction(key, value) == [key |-> key, value |-> value]

\* corrections maps, as the sequence of their items
CorrectionInputs ==
    {<<>>,
     <<Correction("leverage", Num(1)), Correction("stop_loss", Num(98))>>,
     <<Correction("quantity", Num(250)), Correction("position_size_pct", Num(10))>>}

\* what risk_audit.audit_decision returns
Audit(passed, risk_level, blocked_reason, corrections) ==
    [t |-> "audit", passed |-> passed, risk_level |-> risk_level,
     blocked_reason |-> blocked_reason, corrections |-> corrections]

AuditResults ==
    {Audit(TRUE, r, None, c) : r \in {"safe", "caution"}, c \in CorrectionInputs}
    \cup {Audit(FALSE, r, Str("Insufficient margin for the order"), c) :
            r \in {"caution", "dangerous"}, c \in CorrectionInputs}

InitCycle ==
    /\ ProtocolIdle
    /\ ValidatorIdle
    /\ ParserIdle
    /\ test_mode \in BOOLEAN
    /\ pc = "idle"
    /\ cycle_counter = 0
    /\ current_price = 0
    /\ vote_result = None
    /\ order_params = None
    /\ audit_result = None
    /\ guardian_status = ""
    /\ executions = <<>>
    /\ trade_history = <<>>
    /\ result = None
    /\ LlmIdle
    /\ LoopIdle
    /\ MoreIdle

otherVars == <<protoVars, valVars, parserVars, llmVars, loopVars, moreVars>>

\* the return of a result, or of what the handler of the try block makes of
\* an exception
Return(r) == result' = r /\ pc' = "returned"
Raise(message) == Return(handle_exception(message))

\* run_trading_cycle is invoked: the cycle counter and the cycle id
Enter ==
    /\ pc \in {"idle", "returned"}
    /\ loop_pc \in {"off", "call"}
    /\ cycle_counter < MaxCycles
    /\ cycle_counter' = cycle_counter + 1
    /\ pc' = "oracle"
    /\ current_price' = 0
    /\ vote_result' = None
    /\ order_params' = None
    /\ audit_result' = None
    /\ executions' = <<>>
    /\ result' = None
    /\ loop_pc' = IF loop_pc = "call" THEN "cycle" ELSE loop_pc
    /\ UNCHANGED <<test_mode, guardian_status, trade_history, protoVars, valVars,
                   parserVars, llmVars, execution_mode, current_mode, wait_i, moreVars>>

\* Step 1: fetch_all_timeframes, the indicators and their files
Oracle ==
    /\ pc = "oracle"
    /\ \/ \E price \in Prices : current_price' = price /\ pc' = "strategist" /\ result' = result
       \/ \E message \in ErrorMessages : Raise(message) /\ current_price' = current_price
    /\ UNCHANGED <<test_mode, cycle_counter, vote_result, order_params, audit_result,
                   guardian_status, executions, trade_history, otherVars>>

\* Step 2: analyze_all_timeframes and save_context
Strategist ==
    /\ pc = "strategist"
    /\ \/ pc' = "critic" /\ result' = result
       \/ \E message \in ErrorMessages : Raise(message)
    /\ UNCHANGED <<test_mode, cycle_counter, current_price, vote_result, order_params,
                   audit_result, guardian_status, executions, trade_history, otherVars>>

\* Step 3: make_decision, its files, and the return of a `hold` vote
Critic ==
    /\ pc = "critic"
    /\ \/ \E vote \in VoteResults :
            /\ vote_result' = vote
            /\ IF vote.action = "hold"
               THEN Return(Result("wait", "wait",
                                  [reason |-> Str(vote.reason),
                                   confidence |-> Num(vote.confidence)]))
               ELSE pc' = "guardian" /\ result' = result
       \/ \E vote \in VoteResults \cup {None}, message \in ErrorMessages :
            vote_result' = vote /\ Raise(message)
    /\ UNCHANGED <<test_mode, cycle_counter, current_price, order_params, audit_result,
                   guardian_status, executions, trade_history, otherVars>>

\* Step 4: the order parameters, the account (its failure is caught), the
\* position, and audit_decision
Guardian ==
    /\ pc = "guardian"
    /\ order_params' = build_order_params(vote_result.action, current_price,
                                          vote_result.confidence)
    /\ \/ \E audit \in AuditResults :
            /\ audit_result' = audit
            /\ guardian_status' = (IF audit.passed THEN "PASSED" ELSE "BLOCKED")
            /\ pc' = "verdict"
            /\ result' = result
       \/ \E message \in ErrorMessages :
            /\ Raise(message)
            /\ guardian_status' = "Auditing..."
            /\ audit_result' = audit_result
    /\ UNCHANGED <<test_mode, cycle_counter, current_price, vote_result, executions,
                   trade_history, otherVars>>

\* The decision is published, the audit report saved, the corrections
\* applied; then the verdict is looked at.
Verdict ==
    /\ pc = "verdict"
    /\ \/ \E message \in ErrorMessages : Raise(message) /\ order_params' = order_params
       \/ LET corrected == apply_corrections(order_params, audit_result.corrections)
          IN  /\ order_params' = corrected.params
              /\ IF corrected.error # "" THEN Raise(corrected.error)
                 ELSE IF blocked(audit_result)
                 THEN Return(Result("blocked", vote_result.action,
                                    [reason |-> audit_result.blocked_reason,
                                     risk_level |-> Str(audit_result.risk_level)]))
                 ELSE pc' = "execute" /\ result' = result
    /\ UNCHANGED <<test_mode, cycle_counter, current_price, vote_result, audit_result,
                   guardian_status, executions, trade_history, otherVars>>

\* what _execute_order meets: the order is filled and protected, the client
\* returns no order, the client raises before the order is placed, or the
\* stop-loss/take-profit call raises after it was placed
OrderOutcomes == {"filled", "no_order", "raised_before", "raised_after"}

\* _execute_order(order_params): exceptions are caught and make it return
\* False; placed tells whether the exchange received the market order
execute_order(outcome) ==
    [executed |-> outcome = "filled", placed |-> outcome \in {"filled", "raised_after"}]

\* Step 5 in test mode: the simulated execution and its records
ExecuteSimulated ==
    /\ pc = "execute"
    /\ test_mode
    /\ \/ \E message \in ErrorMessages :      \* save_execution raises
            /\ Raise(message)
            /\ UNCHANGED <<executions, trade_history>>
       \/ \E message \in ErrorMessages :      \* save_trade raises
            /\ executions' = Append(executions, Execution("simulated", order_params))
            /\ Raise(message)
            /\ UNCHANGED trade_history
       \/ /\ executions' = Append(executions, Execution("simulated", order_params))
          /\ trade_history' = record_trade(trade_history,
                                  TradeRecord(order_params, Num(current_price), "SIMULATED"))
          /\ Return(Result("success", vote_result.action, order_params))
    /\ UNCHANGED <<test_mode, cycle_counter, current_price, vote_result, order_params,
                   audit_result, guardian_status, otherVars>>

\* Step 5 on the exchange: _execute_order, save_execution, and the records
\* of an executed order.  The log line of an executed order reads
\* order_params['price'], a KeyError unless the key is there.
ExecuteReal ==
    /\ pc = "execute"
    /\ ~test_mode
    /\ \E outcome \in OrderOutcomes :
        LET order == execute_order(outcome)
        IN  /\ executions' = IF order.placed
                             THEN Append(executions, Execution("real", order_params))
                             ELSE executions
            /\ \/ \E message \in ErrorMessages :      \* save_execution raises
                    Raise(message) /\ UNCHANGED trade_history
               \/ /\ ~order.executed
                  /\ Return(Result("failed", vote_result.action,
                                   [error |-> Str("execution_failed")]))
                  /\ UNCHANGED trade_history
               \/ /\ order.executed
                  /\ ~Has(order_params, "price")
                  /\ Raise("'price'")
                  /\ UNCHANGED trade_history
               \/ /\ order.executed
                  /\ Has(order_params, "price")
                  /\ \E message \in ErrorMessages :   \* log_open_position or save_trade raises
                        Raise(message) /\ UNCHANGED trade_history
               \/ /\ order.executed
                  /\ Has(order_params, "price")
                  /\ trade_history' = record_trade(trade_history,
                                          TradeRecord(order_params, order_params.entry_price,
                                                      "EXECUTED"))
                  /\ Return(Result("success", vote_result.action, order_params))
    /\ UNCHANGED <<test_mode, cycle_counter, current_price, vote_result, order_params,
                   audit_result, guardian_status, otherVars>>

NextCycle ==
    Enter \/ Oracle \/ Strategist \/ Critic \/ Guardian \/ Verdict
    \/ ExecuteSimulated \/ ExecuteReal

SpecCycle == InitCycle /\ [][NextCycle]_vars

-----------------------------------------------------------------------------
(* BaseLLMClient.chat_messages (src/llm/base.py): the retry loop            *)

MaxRetries == 3

\* the status codes a server answers with
Statuses == {200, 400, 401, 404, 429, 500, 501, 503}

\* what one client.post produces: an exception of httpx (error names its
\* class), or a response with a status code and a body that _parse_response
\* accepts ("completion") or raises on ("garbage")
Posts ==
    {[error |-> "", status_code |-> 200, body |-> b] : b \in {"completion", "garbage"}}
    \cup {[error |-> "", status_code |-> s, body |-> "garbage"] : s \in Statuses \ {200}}
    \cup {[error |-> c, status_code |-> 0, body |-> ""] :
            c \in {"ConnectError", "ReadError", "ConnectionResetError", "ReadTimeout"}}

Error(class, status_code) == [class |-> class, status_code |-> status_code]

\* response.raise_for_status()
raise_for_status(o) == o.status_code >= 400

\* the exception the try block ends with for one post, None when it
\* reaches `return parsed`
Caught(o) ==
    IF o.error # "" THEN Error(o.error, 0)
    ELSE IF raise_for_status(o) THEN Error("HTTPStatusError", o.status_code)
    ELSE IF o.body = "garbage" THEN Error("KeyError", 0)
    ELSE None

\* self._parse_response(response.json())
parse_response(o) == [content |-> o.body, status_code |-> o.status_code]

\* the status codes of the first handler's retry list
RetryableStatus == {429, 500, 502, 503, 504}

\* the classes of the second handler: httpx.ReadTimeout is a TransportError
\* and none of these, so the third handler catches it
ConnectionErrors ==
    {"ConnectError", "ReadError", "WriteError", "ConnectionResetError",
     "ConnectionError", "OSError"}

wait_time_fixed(k) == 1

\* wait_time = 2 ** attempt
wait_time(k) == 2 ^ k

Running == [status |-> "running", value |-> None]

InitRetry ==
    /\ ProtocolIdle
    /\ ValidatorIdle
    /\ ParserIdle
    /\ CycleIdle
    /\ LoopIdle
    /\ MoreIdle
    /\ max_retries \in 0..MaxRetries
    /\ attempt = 0
    /\ last_error = None
    /\ posted = <<>>
    /\ slept = <<>>
    /\ reply = Running

retryIdle == <<protoVars, valVars, parserVars, cycleVars, loopVars, moreVars>>

\* the loop body is entered for the next value of range(max_retries)
InLoop == reply = Running /\ attempt < max_retries

\* time.sleep(wait_time); continue
Retry ==
    /\ slept' = Append(slept, wait_time(attempt))
    /\ attempt' = attempt + 1
    /\ UNCHANGED reply

\* an exception leaves chat_messages
Propagate(e) ==
    /\ reply' = [status |-> "raised", value |-> e]
    /\ UNCHANGED <<slept, attempt>>

\* the try block runs to `return parsed`
Succeed ==
    /\ InLoop
    /\ \E o \in Posts :
        /\ Caught(o) = None
        /\ posted' = Append(posted, o)
        /\ reply' = [status |-> "returned", value |-> parse_response(o)]
    /\ UNCHANGED <<max_retries, attempt, last_error, slept, retryIdle>>

\* except httpx.HTTPStatusError
StatusFailure ==
    /\ InLoop
    /\ \E o \in Posts :
        /\ Caught(o) # None
        /\ Caught(o).class = "HTTPStatusError"
        /\ posted' = Append(posted, o)
        /\ last_error' = Caught(o)
        /\ IF o.status_code \in RetryableStatus
           THEN Retry
           ELSE Propagate(Caught(o))
    /\ UNCHANGED <<max_retries, retryIdle>>

\* except (httpx.ConnectError, httpx.ReadError, httpx.WriteError,
\*         ConnectionResetError, ConnectionError, OSError)
ConnectionFailure ==
    /\ InLoop
    /\ \E o \in Posts :
        /\ Caught(o) # None
        /\ Caught(o).class \in ConnectionErrors
        /\ posted' = Append(posted, o)
        /\ last_error' = Caught(o)
        /\ Retry
    /\ UNCHANGED <<max_retries, retryIdle>>

\* except Exception
OtherFailure ==
    /\ InLoop
    /\ \E o \in Posts :
        /\ Caught(o) # None
        /\ Caught(o).class \notin ConnectionErrors \cup {"HTTPStatusError"}
        /\ posted' = Append(posted, o)
        /\ last_error' = Caught(o)
        /\ IF attempt < max_retries - 1
           THEN Retry
           ELSE Propagate(Caught(o))
    /\ UNCHANGED <<max_retries, retryIdle>>

\* the loop is over: raise last_error or Exception("Max retries exceeded")
Exhausted ==
    /\ reply = Running
    /\ attempt >= max_retries
    /\ reply' = [status |-> "raised",
                 value |-> IF last_error # None THEN last_error
                           ELSE Error("Exception", 0)]
    /\ UNCHANGED <<max_retries, attempt, last_error, posted, slept, retryIdle>>

NextRetry == Succeed \/ StatusFailure \/ ConnectionFailure \/ OtherFailure \/ Exhausted

SpecRetry == InitRetry /\ [][NextRetry]_vars

\* the call is synchronous and every post ends within config.timeout
SpecRetryFair == SpecRetry /\ WF_vars(NextRetry)

-----------------------------------------------------------------------------
(* MultiAgentTradingBot.run_continuous (main.py): the loop around the cycle *)

\* wait_seconds = interval_minutes * 60
WaitSeconds == 1

\* the values of global_state.execution_mode (server/state.py)
ExecutionModes == {"Running", "Paused", "Stopped"}

InitLoop ==
    /\ ProtocolIdle
    /\ ValidatorIdle
    /\ ParserIdle
    /\ LlmIdle
    /\ MoreIdle
    /\ test_mode \in BOOLEAN
    /\ pc = "idle"
    /\ cycle_counter = 0
    /\ current_price = 0
    /\ vote_result = None
    /\ order_params = None
    /\ audit_result = None
    /\ guardian_status = ""
    /\ executions = <<>>
    /\ trade_history = <<>>
    /\ result = None
    /\ execution_mode = "Running"
    /\ loop_pc = "check"
    /\ current_mode = None
    /\ wait_i = 0

loopIdle == <<protoVars, valVars, parserVars, llmVars, moreVars>>

AfterCheck_pause_runs(mode) == IF mode = "Stopped" THEN "stopped" ELSE "call"

\* where the loop goes after reading the mode: break on Stopped, sleep a
\* second and read again on Paused, the cycle otherwise
AfterCheck(mode) ==
    IF mode = "Stopped" THEN "stopped"
    ELSE IF mode = "Paused" THEN "check"
    ELSE "call"

\* the head of the loop: current_mode = global_state.execution_mode
CheckMode ==
    /\ loop_pc = "check"
    /\ current_mode' = Str(execution_mode)
    /\ loop_pc' = AfterCheck(execution_mode)
    /\ UNCHANGED <<execution_mode, wait_i, cycleVars, loopIdle>>

\* asyncio.run(self.run_trading_cycle()) has returned: the result is printed
\* and the wait begins
CycleDone ==
    /\ loop_pc = "cycle"
    /\ pc = "returned"
    /\ loop_pc' = "wait"
    /\ wait_i' = 0
    /\ UNCHANGED <<execution_mode, current_mode, cycleVars, loopIdle>>

\* one round of `for i in range(wait_seconds)`: break when the mode is not
\* Running, sleep a second otherwise; the loop head follows the last round
WaitTick ==
    /\ loop_pc = "wait"
    /\ IF wait_i < WaitSeconds /\ execution_mode = "Running"
       THEN wait_i' = wait_i + 1 /\ UNCHANGED loop_pc
       ELSE loop_pc' = "check" /\ UNCHANGED wait_i
    /\ UNCHANGED <<execution_mode, current_mode, cycleVars, loopIdle>>

\* the operator sets the mode from the dashboard
Operator ==
    /\ loop_pc \notin {"off", "stopped"}
    /\ \E mode \in ExecutionModes :
        /\ mode # execution_mode
        /\ execution_mode' = mode
    /\ UNCHANGED <<loop_pc, current_mode, wait_i, cycleVars, loopIdle>>

NextLoop ==
    CheckMode \/ Enter \/ Oracle \/ Strategist \/ Critic \/ Guardian \/ Verdict
    \/ ExecuteSimulated \/ ExecuteReal \/ CycleDone \/ WaitTick \/ Operator

SpecLoop == InitLoop /\ [][NextLoop]_vars

-----------------------------------------------------------------------------
(* Claims about normalize_action and DecisionValidator.validate            *)

Normalized == pOut # None /\ pOut # Str("idle")
Validated == vresult.status \in {"returned", "raised"}
Accepted == vresult.status = "returned" /\ vresult.valid

LongSides == {Str("long"), Str("Long"), Str("open_long")}
ShortSides == {Str("short"), Str(" SHORT "), Str("SHORT"), Str("open_short")}

\* what the protocol documents for a generic close and a position side
ResolvedClose(side) ==
    IF side \in LongSides THEN CLOSE_LONG
    ELSE IF side \in ShortSides THEN CLOSE_SHORT
    ELSE CLOSE_POSITION

\* the entry price as the claims state it: entry_price, and current_price
\* when entry_price is absent (a missing key or None)
ClaimedEntry(d) ==
    IF Has(d, "entry_price") /\ ~IsNone(d["entry_price"])
    THEN d["entry_price"]
    ELSE Get(d, "current_price")

\* C3 (as claimed): every accepted open decision has its stop loss on the
\* losing side of the entry price (entry_price, else current_price when that
\* is absent); the check is skipped only when both prices are absent.
C3_StopLossDirection ==
    (Accepted /\ PyStr(decision["action"]) \in OPEN_ACTIONS
              /\ ~IsNone(ClaimedEntry(decision0)))
    => /\ PyStr(decision["action"]) = OPEN_LONG
            => decision0["stop_loss"].v < ClaimedEntry(decision0).v
       /\ PyStr(decision["action"]) = OPEN_SHORT
            => decision0["stop_loss"].v > ClaimedEntry(decision0).v

\* C4 (as claimed): every accepted open decision whose entry (entry_price,
\* else current_price), stop loss and take profit are present with non-zero
\* risk has reward / risk >= min_risk_reward_ratio, with
\* risk = |entry - stop_loss| and reward = |take_profit - entry|.
C4_RiskReward ==
    (Accepted /\ PyStr(decision["action"]) \in OPEN_ACTIONS
              /\ ~IsNone(ClaimedEntry(decision0)))
    => LET entry == ClaimedEntry(decision0).v
           risk == Abs(entry - decision0["stop_loss"].v)
           reward == Abs(decision0["take_profit"].v - entry)
       IN  risk # 0 => reward >= min_risk_reward_ratio * risk

\* C7 (as claimed): normalize_action returns one of the six canonical
\* actions for every input; open aliases map to their canonical action and
\* unrecognized input returns wait.
C7_SixCanonical ==
    Normalized => PyStr(pOut) \in CanonicalActions

\* C7 (amended): normalize_action returns one of the six canonical actions or
\* the generic close_position, the latter only for a generic close alias;
\* long, buy, go_long give open_long and short, sell, go_short give
\* open_short, whatever the case and the surrounding blanks; every
\* unrecognized input, None and numbers included, gives wait.
C7_Total ==
    Normalized =>
        /\ PyStr(pOut) \in CanonicalActions \cup {CLOSE_POSITION}
        /\ PyStr(pOut) = CLOSE_POSITION => pWord \in GenericCloseAliases
        /\ pWord \in {"open_long", "long", "buy", "go_long"} => PyStr(pOut) = OPEN_LONG
        /\ pWord \in {"open_short", "short", "sell", "go_short"} => PyStr(pOut) = OPEN_SHORT
        /\ pWord \in {"add_position", "something_unknown", "", "5"} => PyStr(pOut) = WAIT

C7_Witness ==
    /\ Normalized
    /\ pWord = "buy"
    /\ pAction # Str("buy")
    /\ PyStr(pOut) = OPEN_LONG

GenericCloseInputs ==
    {Str("close"), Str("exit"), Str("close_position"), Str(" Close ")}

\* the decision has the required fields, a confidence in range if any, and no
\* text in a banned format
WellFormedShape(d) ==
    /\ Has(d, "symbol") /\ Has(d, "action") /\ Has(d, "reasoning")
    /\ Has(d, "confidence") => d["confidence"] = Num(80)
    /\ d["reasoning"] \notin {Str("85000~86000"), Str("84,710")}

\* C8: a generic close alias resolves to close_long for a long side, to
\* close_short for a short side, and is close_position when the side is
\* absent or unrecognized; validate resolves a generic close decision the
\* same way from decision.position_side and accepts it.
C8_CloseResolution ==
    /\ (Normalized /\ pWord \in GenericCloseAliases)
            => PyStr(pOut) = ResolvedClose(pSide)
    /\ (vresult # Pending /\ vresult # Idle /\ WellFormedShape(decision0)
            /\ decision0["action"] \in GenericCloseInputs)
            => /\ Accepted
               /\ decision["action"]
                    = Str(ResolvedClose(Get(decision0, "position_side")))

C8_Witness ==
    /\ Accepted
    /\ decision0["action"] = Str("close_position")
    /\ Get(decision0, "position_side") = Str("short")
    /\ decision["action"] = Str(CLOSE_SHORT)

\* the open decision of the validator's own test, scaled to the price range:
\* action long, price 2, stop loss 1, take profit 4
AliasOpenDecision ==
    Dict([BaseFields EXCEPT !.action = Str("long"), !.current_price = Num(2),
                            !.stop_loss = Num(1), !.take_profit = Num(4)])

\* C9 (as claimed): with the required fields present, validate stores
\* normalize_action(action, position_side) in decision.action, which is then
\* always one of the six canonical actions.
C9_AlwaysCanonical ==
    (Validated /\ Has(decision0, "symbol") /\ Has(decision0, "action")
               /\ Has(decision0, "reasoning"))
    => /\ decision["action"] = Str(normalize_action(Get(decision0, "action"),
                                                    Get(decision0, "position_side")))
       /\ PyStr(decision["action"]) \in CanonicalActions

\* C9 (amended): with the required fields present, validate stores
\* normalize_action(action, position_side) in decision.action, which is then
\* one of the six canonical actions or, for a generic close whose side is not
\* known, close_position; an open alias with valid open fields is accepted as
\* open_long, and an unsupported action is downgraded to wait and accepted.
C9_ActionRewritten ==
    /\ (Validated /\ Has(decision0, "symbol") /\ Has(decision0, "action")
                  /\ Has(decision0, "reasoning"))
       => /\ decision["action"] = Str(normalize_action(Get(decision0, "action"),
                                                       Get(decision0, "position_side")))
          /\ PyStr(decision["action"]) \in CanonicalActions \cup {CLOSE_POSITION}
          /\ PyStr(decision["action"]) = CLOSE_POSITION
                => /\ decision0["action"] \in GenericCloseInputs
                   /\ Get(decision0, "position_side") \notin LongSides \cup ShortSides
    /\ (vresult # Pending /\ decision0 = AliasOpenDecision)
       => Accepted /\ decision["action"] = Str(OPEN_LONG)
    /\ (vresult # Pending /\ vresult # Idle /\ WellFormedShape(decision0)
            /\ decision0["action"] = Str("add_position"))
       => Accepted /\ decision["action"] = Str(WAIT)

C9_Witness ==
    /\ Accepted
    /\ decision0 = AliasOpenDecision
    /\ decision["action"] = Str(OPEN_LONG)

\* C10: validate changes no field of the decision other than action and adds
\* or removes no key, whether it accepts, rejects, short-circuits or raises.
C10_OnlyActionWritten ==
    (vresult # Pending /\ vresult # Idle)
    => /\ DOMAIN decision = DOMAIN decision0
       /\ \A k \in DOMAIN decision0 \ {"action"} : decision[k] = decision0[k]

C10_Witness ==
    /\ Accepted
    /\ decision["action"] # decision0["action"]
    /\ Get(decision0, "entry_price") = Num(0)
    /\ Has(decision0, "current_price")
    /\ decision["entry_price"] = Num(0)

-----------------------------------------------------------------------------
(* Claims about LLMOutputParser.parse                                      *)

HasParsed == parsed # NotParsed

\* C6: parse never raises and the decision it returns is always an object
\* (a dict) with an `action` key, the safe fallback included.
C6_DecisionIsObject ==
    HasParsed =>
        /\ parsed.decision.t = "dict"
        /\ "action" \in DOMAIN parsed.decision.v

-----------------------------------------------------------------------------
(* Claims about run_trading_cycle                                          *)

CycleReturned == pc = "returned"
Audited == audit_result # None
Vetoed == Audited /\ ~audit_result.passed
ReturnedDict == CycleReturned /\ result.t = "dict"
Status == result.v.status.v
Details == result.v.details.v

\* the result of a blocked cycle: status `blocked`, with the audit's reason
BlockedResult ==
    /\ ReturnedDict
    /\ Status = "blocked"
    /\ Has(Details, "reason")
    /\ Details["reason"] = audit_result.blocked_reason

\* C1 (as claimed): whenever the audit result has passed = false, the cycle
\* returns status `blocked` with the audit's blocked_reason and performs no
\* execution step.
C1_VetoReturnsBlocked ==
    (Vetoed /\ CycleReturned) => (BlockedResult /\ executions = <<>>)

\* C1 (amended): after an audit result with passed = false the cycle never
\* reaches the execution step and performs no execution, simulated or real,
\* whatever the confidence; it returns status `blocked` with the audit's
\* blocked_reason unless a step between the audit and the verdict raised
\* (saving the audit report, printing a correction whose key the order
\* parameters lack), and then it returns status `error`.
C1_VetoNeverExecutes ==
    Vetoed =>
        /\ pc # "execute"
        /\ executions = <<>>
        /\ CycleReturned => (BlockedResult \/ (ReturnedDict /\ Status = "error"))

\* a vetoed cycle of a vote with full confidence has returned `blocked`,
\* its corrections applied
C1_Witness ==
    /\ Vetoed
    /\ BlockedResult
    /\ vote_result.confidence = 100
    /\ Len(audit_result.corrections) > 0
    /\ executions = <<>>

\* C2: an order reaches the execution step (simulated or real) only after
\* the cycle's decision has passed the Decision Validator and then the Risk
\* Audit Gate.
C2_ValidatedThenAudited ==
    (pc = "execute" \/ executions # <<>>) =>
        /\ vresult.status = "returned"
        /\ vresult.valid
        /\ Audited
        /\ audit_result.passed

StatusesClaimed == {"success", "blocked", "rejected", "wait", "hold", "failed", "error"}
StatusesReturned == {"success", "blocked", "wait", "failed", "error"}

\* details carries a text under `key`
HasText(key) == Has(Details, key) /\ Details[key].t = "str"

-----------------------------------------------------------------------------
(* Further claims about DecisionValidator.validate                         *)

\* the fields the contract requires of every decision
RequiredNames == {"symbol", "action", "reasoning"}
AbsentRequired == {f \in RequiredNames : ~Has(decision0, f)}
RequiredPresent == AbsentRequired = {}

\* the validated decision is an open decision
OpenDecision ==
    /\ RequiredPresent
    /\ Validated
    /\ PyStr(decision["action"]) \in OPEN_ACTIONS

\* the decision holds field f with a value that is not a number
NonNumber(f) == Has(decision0, f) /\ ~IsNum(decision0[f])

\* the errors returned hold one that names field f
NamesField(f) == \E i \in 1..Len(vresult.errors) : vresult.errors[i].field = f

\* C11: validate always returns an (is_valid, errors) pair and never raises;
\* for an open decision in which leverage, position_size_usd, stop_loss,
\* take_profit or risk_usd is not a number it returns is_valid = false with
\* an error naming that field.
C11_NonNumbersRejected ==
    Validated =>
        /\ vresult.status = "returned"
        /\ \A i \in 1..Len(numeric_fields) :
              (OpenDecision /\ NonNumber(numeric_fields[i])) =>
                  (~vresult.valid /\ NamesField(numeric_fields[i]))


Revalidated == vresult2.status \in {"returned", "raised"}

\* C13 (as claimed): a second call of validate on an already validated
\* decision returns what the first call returned and leaves the decision,
\* whose action is one of the six canonical actions, unchanged.
C13_IdempotentCanonical ==
    Revalidated =>
        /\ vresult2 = vresult
        /\ decision = decision1
        /\ RequiredPresent => PyStr(decision1["action"]) \in CanonicalActions

\* C13 (amended): a second call of validate returns what the first call
\* returned and leaves the decision unchanged; the action the first call
\* left is a fixed point of the normalizer: one of the six canonical
\* actions, or the generic close_position of a close whose side is unknown.
C13_Idempotent ==
    Revalidated =>
        /\ vresult2 = vresult
        /\ decision = decision1
        /\ RequiredPresent => PyStr(decision1["action"]) \in CanonicalActions \cup {CLOSE_POSITION}

\* an alias decision that the first call rewrote and rejected was validated
\* again, with the same errors
C13_Witness ==
    /\ Revalidated
    /\ RequiredPresent
    /\ vresult2.status = "returned"
    /\ Len(vresult2.errors) > 0
    /\ decision0["action"] = Str("long")
    /\ decision1["action"] = Str(OPEN_LONG)
    /\ decision = decision1


-----------------------------------------------------------------------------
(* Claims about the extraction of the JSON text                            *)

Extracted == scanned.done
Text == response.v

\* the first opening bracket, 0 when the text has none
FirstOpen(open_char) == Find(Text, open_char, 1)

\* the position at which the scanning loop, started at the first opening
\* bracket, sees the depth return to zero (0 when it never does)
BalancedStop(open_char, close_char) ==
    IF FirstOpen(open_char) = 0 THEN 0
    ELSE BalancedScan(Text, open_char, close_char, FirstOpen(open_char), Len(Text),
                      [count |-> 0, in_string |-> FALSE, escape_next |-> FALSE,
                       stop |-> 0]).stop

\* the substring from the first opening bracket to that position
BalancedText(open_char, close_char) ==
    SubSeq(Text, FirstOpen(open_char), BalancedStop(open_char, close_char))

\* the JSON value that begins at the first opening bracket, by the grammar
\* of JSON alone
ValueAtFirst(open_char) == JsonValue(Text, FirstOpen(open_char))

GrammarResult(open_char) ==
    IF FirstOpen(open_char) # 0 /\ ValueAtFirst(open_char).ok
    THEN Str(SubSeq(Text, FirstOpen(open_char), ValueAtFirst(open_char).next - 1))
    ELSE None

C15_FirstInTextOrder ==
    (Extracted /\ scanned.object # None /\ scanned.array # None) =>
        scanned.found = IF FirstOpen("{") < FirstOpen("[")
                        THEN scanned.object ELSE scanned.array

\* an opening bracket after position p begins a JSON value
ParsesLater(open_char, p) ==
    \E q \in (p + 1)..Len(Text) : Char(Text, q) = open_char /\ JsonValue(Text, q).ok

\* the first balanced candidate of the scan for open_char is not JSON
FirstCandidateFails(open_char, close_char) ==
    /\ BalancedStop(open_char, close_char) # 0
    /\ ~json_loads(BalancedText(open_char, close_char)).ok

\* C16: when the first depth-balanced candidate does not parse as JSON, the
\* scanner keeps searching and returns a later balanced substring that
\* parses, instead of no match.
C16_KeepsSearching ==
    Extracted =>
        /\ (FirstCandidateFails("[", "]")
              /\ ParsesLater("[", BalancedStop("[", "]"))) => scanned.array # None
        /\ (FirstCandidateFails("{", "}")
              /\ ParsesLater("{", BalancedStop("{", "}"))) => scanned.object # None


-----------------------------------------------------------------------------
(* Claims about BaseLLMClient.chat_messages                                *)

Terminated == reply.status \in {"returned", "raised"}
Failed(o) == Caught(o) # None

\* the failures every reading of "retryable" covers: the listed status codes
\* and the connection errors
ListedRetryable(o) ==
    /\ Failed(o)
    /\ \/ Caught(o).class = "HTTPStatusError" /\ o.status_code \in {429, 500, 502, 503, 504}
       \/ Caught(o).class \in {"ConnectError", "ReadError", "ConnectionResetError"}

\* one call sends at most max_retries requests
AtMostMaxRetries == Len(posted) <= max_retries

\* the wait after the k-th failure (k from 0) is 2^k seconds: every wait made
\* has that length, a wait follows every retryable failure, and a request
\* that follows a failure follows its wait
DoublingWaits ==
    /\ \A k \in 1..Len(slept) :
        /\ k <= Len(posted)
        /\ Failed(posted[k])
        /\ slept[k] = 2 ^ (k - 1)
    /\ \A k \in 1..Len(posted) :
        /\ ListedRetryable(posted[k]) => k <= Len(slept)
        /\ k < Len(posted) => k <= Len(slept)

\* the first success is the last request, and its parsed response is returned
FirstSuccessReturns ==
    /\ \A k \in 1..Len(posted) :
        ~Failed(posted[k]) =>
            /\ k = Len(posted)
            /\ reply = [status |-> "returned", value |-> parse_response(posted[k])]
    /\ reply.status = "returned" =>
        /\ posted # <<>>
        /\ ~Failed(posted[Len(posted)])

\* after max_retries failed attempts the last error is raised
LastErrorRaised ==
    (/\ Terminated
     /\ max_retries >= 1
     /\ Len(posted) = max_retries
     /\ Failed(posted[Len(posted)]))
        => reply = [status |-> "raised", value |-> Caught(posted[Len(posted)])]

C17_Safety ==
    /\ AtMostMaxRetries
    /\ DoublingWaits
    /\ FirstSuccessReturns
    /\ LastErrorRaised

\* C17: chat_messages sends at most max_retries requests and always
\* terminates; the wait after the k-th failure (k from 0) is 2^k seconds; the
\* first success returns its parsed response with no further request; after
\* max_retries failed attempts the last error is raised.
C17_BoundedBackoff == []C17_Safety /\ <>Terminated

\* three retryable failures, waits of 1, 2 and 4 seconds, the last error raised
C17_Witness ==
    /\ max_retries = 3
    /\ Len(posted) = 3
    /\ \A k \in 1..3 : ListedRetryable(posted[k])
    /\ slept = <<1, 2, 4>>
    /\ reply = [status |-> "raised", value |-> Caught(posted[3])]


\* the failure classes the claim calls retryable: HTTP 429, any 5xx, and the
\* connection errors and resets
ClaimedRetryable(o) ==
    /\ Failed(o)
    /\ \/ Caught(o).class = "HTTPStatusError"
          /\ (o.status_code = 429 \/ o.status_code \in 500..599)
       \/ Caught(o).class \in ConnectionErrors

\* C18 (as claimed): another attempt is made only after a retryable failure
\* (HTTP 429 or 5xx, a connection error); every other failure propagates to
\* the caller after that single request, with no wait.
C18_OnlyRetryableRetried ==
    \A k \in 1..Len(posted) :
        /\ k < Len(posted) => ClaimedRetryable(posted[k])
        /\ (Failed(posted[k]) /\ ~ClaimedRetryable(posted[k])) =>
            /\ k = Len(posted)
            /\ Len(slept) = k - 1
            /\ reply = [status |-> "raised", value |-> Caught(posted[k])]


-----------------------------------------------------------------------------
(* Claims about run_continuous                                             *)

\* a cycle is in flight: run_trading_cycle was called by the loop and has
\* not returned
InFlight == loop_pc = "cycle" /\ pc # "returned"
CycleStarts == cycle_counter' # cycle_counter
CycleStep ==
    Oracle \/ Strategist \/ Critic \/ Guardian \/ Verdict \/ ExecuteSimulated
    \/ ExecuteReal

\* what a step of the loop and of the operator may do
ModeGate ==
    \* a cycle starts from the call the loop makes on reading Running, never
    \* on a read of Paused or Stopped, and never while another is in flight
    /\ CycleStarts =>
        /\ loop_pc = "call"
        /\ current_mode = Str("Running")
        /\ ~InFlight
        /\ pc \in {"idle", "returned"}
    \* the call is reached from a read of the mode Running only
    /\ (loop_pc' = "call" /\ loop_pc # "call") =>
        /\ execution_mode = "Running"
        /\ current_mode' = Str("Running")
    \* a change of mode leaves the cycle in flight as it is
    /\ (InFlight /\ execution_mode' # execution_mode) =>
        /\ UNCHANGED cycleVars
        /\ loop_pc' = "cycle"
    \* the loop leaves a cycle only when it has returned
    /\ (loop_pc = "cycle" /\ loop_pc' # "cycle") => pc = "returned"

\* a cycle in flight can take its next step whatever the mode is
NeverHeld == InFlight => ENABLED CycleStep

\* C19: a cycle is started only right after the loop has read mode Running,
\* never on a read of Paused or Stopped; at most one cycle is in flight; a
\* change to Paused or Stopped while a cycle runs does not interrupt it.
C19_ModeCheckedBetweenCycles == []NeverHeld /\ [][ModeGate]_vars

\* a cycle that executed its order and returned although the operator set
\* Stopped after the loop had read Running
C19_Witness ==
    /\ loop_pc = "cycle"
    /\ CycleReturned
    /\ ReturnedDict
    /\ Status = "success"
    /\ executions # <<>>
    /\ current_mode = Str("Running")
    /\ execution_mode = "Stopped"


-----------------------------------------------------------------------------
(* Claims about the corrections of the audit                               *)

\* params holds every entry of the corrections map
Carries(params, corrections) ==
    \A i \in 1..Len(corrections) :
        /\ Has(params, corrections[i].key)
        /\ params[corrections[i].key] = corrections[i].value

\* the execution step is reached, and every order executed, with all the
\* corrections written
CorrectedBeforeExecution ==
    /\ pc = "execute" => Carries(order_params, audit_result.corrections)
    /\ \A i \in 1..Len(executions) :
        /\ Audited
        /\ Carries(executions[i].params, audit_result.corrections)

\* a vetoed cycle that applied its corrections (the order parameters carry
\* them, and did not as they were built) is blocked all the same
StillBlocked ==
    (/\ Vetoed
     /\ CycleReturned
     /\ Carries(order_params, audit_result.corrections)
     /\ ~Carries(build_order_params(vote_result.action, current_price,
                                    vote_result.confidence),
                 audit_result.corrections))
        => (BlockedResult /\ executions = <<>>)

\* the verdict the audit gave is the verdict the cycle acts on
VerdictKept == Audited => audit_result' = audit_result \/ pc' = "oracle"

\* C20: every entry of the corrections map is written into the order
\* parameters before any execution step of the cycle, so an executed order
\* carries the corrected values; applying corrections leaves the verdict as
\* it is: a cycle whose audit did not pass is blocked after its corrections
\* are applied.
C20_CorrectionsThenVerdict ==
    [](CorrectedBeforeExecution /\ StillBlocked) /\ [][VerdictKept]_vars

\* an order executed on the exchange with the corrected stop loss, which
\* differs from the one the order was built with
C20_Witness ==
    /\ Audited
    /\ Len(audit_result.corrections) > 0
    /\ Len(executions) = 1
    /\ executions[1].kind = "real"
    /\ executions[1].params["stop_loss"] = Num(98)
    /\ build_order_params(vote_result.action, current_price,
                          vote_result.confidence)["stop_loss"] # Num(98)


-----------------------------------------------------------------------------
(* Claims about the order parameters and the non-trading votes             *)

\* the action names of each direction
LongNames == {"long", "open_long"}
ShortNames == {"short", "open_short"}

\* the order parameters are as _build_order_params returned them
Built == pc = "verdict" /\ order_params # None
Voted == vote_result.action

\* C21 (as claimed): the order parameters built for a long decision (long,
\* open_long) have stop_loss < entry_price < take_profit, and those built
\* for a short decision (short, open_short) have take_profit < entry_price <
\* stop_loss.
C21_ProtectiveSides ==
    Built =>
        /\ Voted \in LongNames =>
            /\ order_params.stop_loss.v < order_params.entry_price.v
            /\ order_params.entry_price.v < order_params.take_profit.v
        /\ Voted \in ShortNames =>
            /\ order_params.take_profit.v < order_params.entry_price.v
            /\ order_params.entry_price.v < order_params.stop_loss.v


NonTrading == {"wait", "hold"}
HasVote == vote_result.t = "vote"

\* C27 (as claimed): a cycle whose vote is wait or hold builds no order
\* parameters, calls no audit, reaches no execution step, and ends with a
\* wait or hold status (or with the error status of a step that raised).
C27_NonTradingStops ==
    (HasVote /\ Voted \in NonTrading) =>
        /\ order_params = None
        /\ audit_result = None
        /\ pc # "execute"
        /\ executions = <<>>
        /\ CycleReturned => (ReturnedDict /\ Status \in NonTrading \cup {"error"})


-----------------------------------------------------------------------------
(* A further claim about the risk/reward check                             *)

\* C26 (as claimed): the risk/reward check enforces the signed requirement
\* (take_profit - entry) / (entry - stop_loss) >= min_ratio, so every
\* accepted open_long has its take profit above the entry price the check
\* used and every accepted open_short has it below.
C26_SignedRiskReward ==
    (/\ Accepted
     /\ PyStr(decision["action"]) \in OPEN_ACTIONS
     /\ IsNum(EntryOf(decision0))
     /\ Has(decision0, "take_profit")
     /\ IsNum(decision0["take_profit"]))
    => /\ PyStr(decision["action"]) = OPEN_LONG
            => decision0["take_profit"].v > EntryOf(decision0).v
       /\ PyStr(decision["action"]) = OPEN_SHORT
            => decision0["take_profit"].v < EntryOf(decision0).v


-----------------------------------------------------------------------------
(* src/backtest/metrics.py: PerformanceMetrics                             *)
(*                                                                         *)
(* The equity curve is the sequence of its total_equity values, one point  *)
(* a day, so the difference of two index labels in days is the difference  *)
(* of their positions.  Dollar amounts are integers; a ratio is the        *)
(* fraction Frac(n, d) of two integers, compared by cross-multiplication.  *)
(* The statistics that need a standard deviation or a fractional power are *)
(* not evaluated: they are the value Computed.                             *)

MaxPoints == 4
MaxTrades == 2
\* the total_equity values of the curves explored
EquityValues == {90, 100, 110, 120}
\* the initial_capital argument of calculate
initial_capital == 100

Frac(n, d) == [num |-> n, den |-> d]
FracEq(a, b) == a.num * b.den = b.num * a.den
FracLess(a, b) == a.num * b.den < b.num * a.den
ZeroFloat == Frac(0, 1)
Computed == [t |-> "computed"]
Infinity == [t |-> "inf"]
Max(a, b) == IF a >= b THEN a ELSE b

\* Series.max() and Series.idxmax() of a non-empty series of integers: the
\* greatest value, and the first label that carries it
SeriesMax(s) == CHOOSE m \in {s[i] : i \in DOMAIN s} : \A i \in DOMAIN s : s[i] <= m
idxmax(s) == Least({i \in DOMAIN s : s[i] = SeriesMax(s)})
\* Series.max() of a non-empty series of ratios
RatioMax(s) == CHOOSE m \in {s[i] : i \in DOMAIN s} : \A i \in DOMAIN s : ~FracLess(m, s[i])

RECURSIVE SumSeq(_)
SumSeq(s) == IF s = <<>> THEN 0 ELSE s[1] + SumSeq(Tail(s))

\* a variant of expanding_max that takes the peak of the whole curve at
\* every point
expanding_max_of_whole_curve(equity) == [i \in DOMAIN equity |-> SeriesMax(equity)]

RECURSIVE expanding_max(_)
\* equity.expanding().max(): the running maximum, point by point
expanding_max(equity) ==
    IF Len(equity) <= 1 THEN equity
    ELSE Append(expanding_max(SubSeq(equity, 1, Len(equity) - 1)),
                Max(expanding_max(SubSeq(equity, 1, Len(equity) - 1))[Len(equity) - 1],
                    equity[Len(equity)]))

\* drawdown = rolling_max - equity ; drawdown_pct = drawdown / rolling_max * 100
Drawdown(equity, rolling_max) == [i \in DOMAIN equity |-> rolling_max[i] - equity[i]]
DrawdownPct(drawdown, rolling_max) ==
    [i \in DOMAIN drawdown |-> Frac(drawdown[i] * 100, rolling_max[i])]

\* lines 264-275: the days from the peak before the deepest point to the
\* first point from there on that is at or above the peak, to the last point
\* of the curve when there is none
DrawdownDuration(equity, dd_idx, peak_idx) ==
    IF {j \in dd_idx..Len(equity) : equity[j] >= equity[peak_idx]} # {}
    THEN Least({j \in dd_idx..Len(equity) : equity[j] >= equity[peak_idx]}) - peak_idx
    ELSE Len(equity) - peak_idx

MaxDrawdownOf(equity, drawdown, rolling_max) ==
    [max_dd |-> SeriesMax(drawdown),
     max_dd_pct |-> RatioMax(DrawdownPct(drawdown, rolling_max)),
     max_dd_duration |->
        IF SeriesMax(drawdown) > 0
        THEN DrawdownDuration(equity, idxmax(drawdown),
                              idxmax(SubSeq(equity, 1, idxmax(drawdown))))
        ELSE 0]

calculate_max_drawdown(equity) ==
    IF equity = <<>>
    THEN [max_dd |-> 0, max_dd_pct |-> ZeroFloat, max_dd_duration |-> 0]
    ELSE MaxDrawdownOf(equity, Drawdown(equity, expanding_max(equity)),
                       expanding_max(equity))

\* _calculate_returns: (total_return, annualized_return)
calculate_returns(equity, capital) ==
    IF equity = <<>>
    THEN [total_return |-> ZeroFloat, annualized_return |-> ZeroFloat]
    ELSE [total_return |-> Frac((equity[Len(equity)] - capital) * 100, capital),
          annualized_return |-> IF Len(equity) - 1 > 0 THEN Computed ELSE ZeroFloat]

\* _calculate_risk_metrics: (sharpe, sortino, calmar, volatility)
calculate_risk_metrics(equity, total_return, max_dd_pct) ==
    IF equity = <<>> \/ Len(equity) < 2
    THEN [sharpe |-> ZeroFloat, sortino |-> ZeroFloat, calmar |-> ZeroFloat,
          volatility |-> ZeroFloat]
    ELSE [sharpe |-> Computed,
          sortino |-> IF \E i \in 2..Len(equity) : equity[i] < equity[i - 1]
                      THEN Computed ELSE ZeroFloat,
          calmar |-> IF FracLess(ZeroFloat, max_dd_pct)
                     THEN Frac(total_return.num * max_dd_pct.den,
                               total_return.den * max_dd_pct.num)
                     ELSE ZeroFloat,
          volatility |-> Computed]

\* a Trade of src/backtest/portfolio.py, by the attributes the metrics read
Trade(action, side, pnl) == [action |-> action, side |-> side, pnl |-> pnl]
TradeInputs ==
    {Trade("open", "long", 0), Trade("close", "long", 10),
     Trade("close", "short", -5), Trade("close", "short", 0)}
TradeLists == UNION {[1..n -> TradeInputs] : n \in 0..MaxTrades}
EquityCurves == UNION {[1..n -> EquityValues] : n \in 0..MaxPoints}

Pnls(ts) == [i \in DOMAIN ts |-> ts[i].pnl]
Winning(pnls) == SelectSeq(pnls, LAMBDA p : p > 0)
Losing(pnls) == SelectSeq(pnls, LAMBDA p : p < 0)

\* a variant of calculate_trade_stats that counts every closed trade as a
\* winning one when there are none
calculate_trade_stats_one_win(ts) ==
    [total |-> 0, winning |-> 1, losing |-> 0, win_rate |-> ZeroFloat,
     profit_factor |-> ZeroFloat, avg_pnl |-> ZeroFloat]

calculate_trade_stats(ts) ==
    IF ts = <<>>
    THEN [total |-> 0, winning |-> 0, losing |-> 0, win_rate |-> ZeroFloat,
          profit_factor |-> ZeroFloat, avg_pnl |-> ZeroFloat]
    ELSE [total |-> Len(ts),
          winning |-> Len(Winning(Pnls(ts))),
          losing |-> Len(Losing(Pnls(ts))),
          win_rate |-> Frac(Len(Winning(Pnls(ts))) * 100, Len(ts)),
          profit_factor |->
             IF Abs(SumSeq(Losing(Pnls(ts)))) > 0
             THEN Frac(SumSeq(Winning(Pnls(ts))), Abs(SumSeq(Losing(Pnls(ts)))))
             ELSE Infinity,
          avg_pnl |-> Frac(SumSeq(Pnls(ts)), Len(ts))]

\* calc_side of _calculate_side_stats
calc_side(trade_list) ==
    IF trade_list = <<>>
    THEN [count |-> 0, win_rate |-> ZeroFloat, total_pnl |-> 0]
    ELSE [count |-> Len(trade_list),
          win_rate |-> Frac(Len(Winning(Pnls(trade_list))) * 100, Len(trade_list)),
          total_pnl |-> SumSeq(Pnls(trade_list))]

MetricsResult(equity, capital, returns, dd, risk, trade_stats, long_stats, short_stats) ==
    [total_return |-> returns.total_return,
     annualized_return |-> returns.annualized_return,
     final_equity |-> IF equity # <<>> THEN equity[Len(equity)] ELSE capital,
     profit_amount |-> (IF equity # <<>> THEN equity[Len(equity)] ELSE capital) - capital,
     max_drawdown |-> dd.max_dd,
     max_drawdown_pct |-> dd.max_dd_pct,
     max_drawdown_duration |-> dd.max_dd_duration,
     sharpe_ratio |-> risk.sharpe,
     sortino_ratio |-> risk.sortino,
     calmar_ratio |-> risk.calmar,
     volatility |-> risk.volatility,
     total_trades |-> trade_stats.total,
     winning_trades |-> trade_stats.winning,
     losing_trades |-> trade_stats.losing,
     win_rate |-> trade_stats.win_rate,
     profit_factor |-> trade_stats.profit_factor,
     avg_trade_pnl |-> trade_stats.avg_pnl,
     long_trades |-> long_stats.count,
     short_trades |-> short_stats.count,
     long_win_rate |-> long_stats.win_rate,
     short_win_rate |-> short_stats.win_rate,
     long_pnl |-> long_stats.total_pnl,
     short_pnl |-> short_stats.total_pnl,
     start_date |-> IF equity # <<>> THEN Num(1) ELSE Str("N/A"),
     end_date |-> IF equity # <<>> THEN Num(Len(equity)) ELSE Str("N/A"),
     total_days |-> IF equity # <<>> THEN Len(equity) - 1 ELSE 0]

Closed(ts) == SelectSeq(ts, LAMBDA t : t.action = "close")
OfSide(ts, side) == SelectSeq(ts, LAMBDA t : t.side = side)

CalculateWith(equity, closed_trades, capital, returns, dd) ==
    MetricsResult(equity, capital, returns, dd,
                  calculate_risk_metrics(equity, returns.total_return, dd.max_dd_pct),
                  calculate_trade_stats(closed_trades),
                  calc_side(OfSide(closed_trades, "long")),
                  calc_side(OfSide(closed_trades, "short")))

\* PerformanceMetrics.calculate
calculate(equity, ts, capital) ==
    CalculateWith(equity, Closed(ts), capital, calculate_returns(equity, capital),
                  calculate_max_drawdown(equity))

\* the curves are explored without trades, the trade lists with the empty
\* curve and with the curve of the documented example
ExampleCurve == <<100, 120, 90, 110>>
InitMetrics ==
    /\ ProtocolIdle
    /\ ValidatorIdle
    /\ ParserIdle
    /\ CycleIdle
    /\ LlmIdle
    /\ LoopIdle
    /\ TrendIdle /\ StrategyIdle /\ StatsIdle /\ StateIdle
    /\ \/ equity_curve \in EquityCurves /\ trades = <<>>
       \/ equity_curve \in {<<>>, ExampleCurve} /\ trades \in TradeLists
    /\ metrics = None

metricsIdle == <<protoVars, valVars, parserVars, cycleVars, llmVars, loopVars,
                 trendVars, strategyVars, statsVars, stateVars>>

Calculate ==
    /\ metrics = None
    /\ metrics' = calculate(equity_curve, trades, initial_capital)
    /\ UNCHANGED <<equity_curve, trades, metricsIdle>>

NextMetrics == Calculate

SpecMetrics == InitMetrics /\ [][NextMetrics]_vars


-----------------------------------------------------------------------------
(* Claims about the performance metrics                                    *)

\* the running peak at point i, and the drawdown there, as sets over the
\* points of the curve
PeakAt(equity, i) == CHOOSE m \in {equity[j] : j \in 1..i} : \A j \in 1..i : equity[j] <= m
DrawdownAt(equity, i) == PeakAt(equity, i) - equity[i]
Calculated == metrics # None

\* C22: for every non-empty equity sequence max_drawdown is the greatest,
\* over the points, of the running peak minus the equity, and
\* max_drawdown_pct the greatest of that drawdown over the running peak,
\* times 100; for [100, 120, 90, 110] they are 30 and 25.
C22_MaxDrawdown ==
    (Calculated /\ equity_curve # <<>>) =>
        /\ \E i \in DOMAIN equity_curve :
              metrics.max_drawdown = DrawdownAt(equity_curve, i)
        /\ \A i \in DOMAIN equity_curve :
              metrics.max_drawdown >= DrawdownAt(equity_curve, i)
        /\ \E i \in DOMAIN equity_curve :
              FracEq(metrics.max_drawdown_pct,
                     Frac(DrawdownAt(equity_curve, i) * 100, PeakAt(equity_curve, i)))
        /\ \A i \in DOMAIN equity_curve :
              ~FracLess(metrics.max_drawdown_pct,
                        Frac(DrawdownAt(equity_curve, i) * 100, PeakAt(equity_curve, i)))
        /\ equity_curve = ExampleCurve =>
              /\ metrics.max_drawdown = 30
              /\ FracEq(metrics.max_drawdown_pct, Frac(25, 1))

C22_Witness ==
    /\ Calculated
    /\ equity_curve = ExampleCurve
    /\ metrics.max_drawdown = 30
    /\ metrics.max_drawdown_pct = Frac(3000, 120)

\* the deepest point of a curve, the peak before it, and whether a later
\* point is back at that peak
Deepest(equity) ==
    Least({i \in DOMAIN equity :
              \A j \in DOMAIN equity : DrawdownAt(equity, j) <= DrawdownAt(equity, i)})
PeakBefore(equity) ==
    Least({i \in 1..Deepest(equity) : equity[i] = PeakAt(equity, Deepest(equity))})
Recoveries(equity) ==
    {j \in Deepest(equity)..Len(equity) : equity[j] >= equity[PeakBefore(equity)]}
HasDrawdown(equity) == equity # <<>> /\ DrawdownAt(equity, Deepest(equity)) > 0
Recovered(equity) == HasDrawdown(equity) /\ Recoveries(equity) # {}
NotYetRecovered(equity) == HasDrawdown(equity) /\ Recoveries(equity) = {}

\* C23 (as claimed): the duration of the maximum drawdown runs from the peak
\* before the deepest point to the first later point at or above that peak;
\* when no later point reaches the peak, what _calculate_max_drawdown
\* returns differs from what it returns for every recovered drawdown.
C23_DurationToRecovery ==
    Calculated =>
        /\ Recovered(equity_curve) =>
              metrics.max_drawdown_duration =
                  Least(Recoveries(equity_curve)) - PeakBefore(equity_curve)
        /\ NotYetRecovered(equity_curve) =>
              \A other \in EquityCurves :
                  Recovered(other) =>
                      calculate_max_drawdown(other) # calculate_max_drawdown(equity_curve)

\* the measured part of C23 alone
C23_RecoveredDuration ==
    (Calculated /\ Recovered(equity_curve)) =>
        metrics.max_drawdown_duration =
            Least(Recoveries(equity_curve)) - PeakBefore(equity_curve)

\* C24: with no trades and an empty equity curve calculate returns a result
\* whose counts, rates and ratios are all 0 and whose final_equity is the
\* initial capital.
C24_EmptyInputs ==
    (Calculated /\ trades = <<>> /\ equity_curve = <<>>) =>
        /\ metrics.total_trades = 0
        /\ metrics.winning_trades = 0
        /\ metrics.losing_trades = 0
        /\ metrics.long_trades = 0
        /\ metrics.short_trades = 0
        /\ metrics.max_drawdown = 0
        /\ metrics.max_drawdown_duration = 0
        /\ \A ratio \in {metrics.win_rate, metrics.profit_factor,
                         metrics.max_drawdown_pct, metrics.sharpe_ratio,
                         metrics.sortino_ratio, metrics.calmar_ratio,
                         metrics.long_win_rate, metrics.short_win_rate,
                         metrics.total_return} :
              ratio = ZeroFloat
        /\ metrics.final_equity = initial_capital

C24_Witness ==
    /\ Calculated
    /\ trades = <<>>
    /\ equity_curve = <<>>
    /\ metrics.final_equity = initial_capital
    /\ metrics.total_trades = 0


-----------------------------------------------------------------------------
(* src/agents/quant_analyst_agent.py: TrendSubAgent.analyze                *)
(*                                                                         *)
(* A data frame is the record of what analyze reads of it: its length and  *)
(* the last values of the indicator columns.  live_5m is a dict with open  *)
(* and close, or the empty dict.  The status texts of `details` are        *)
(* written in English.                                                     *)

Frame1h(n, ema_12, ema_26) == [len |-> n, ema_12 |-> ema_12, ema_26 |-> ema_26]
Frame15m(n, prev_macd, current_macd) ==
    [len |-> n, prev_macd |-> prev_macd, current_macd |-> current_macd]
EmptyDict == [k \in {} |-> None]
Candle(open, close) == [open |-> Num(open), close |-> Num(close)]

Frames1h ==
    {Frame1h(n, e[1], e[2]) : n \in {0, 50, 51}, e \in {<<2, 1>>, <<1, 2>>, <<1, 1>>}}
Frames15m ==
    {Frame15m(n, p, c) : n \in {0, 30, 31}, p \in {-1, 0, 1}, c \in {-1, 0, 1}}
Candles ==
    {EmptyDict} \cup
    {Candle(o, c) : o \in {0, 1000}, c \in {994, 997, 1000, 1003, 1005, 1006}}
Snapshots ==
    [stable_1h : Frames1h, stable_15m : Frames15m, live_5m : Candles]

\* lines 45-65: the 1h score, None without more than 50 rows
Trend1hScore(stable_1h) ==
    IF stable_1h.len # 0 /\ stable_1h.len > 50
    THEN IF stable_1h.ema_12 > stable_1h.ema_26 THEN Num(40) ELSE Num(-40)
    ELSE None

\* lines 68-92: candle_change = (close - open) / open against 0.005 and 0.002
Trend5mScore(live_5m) ==
    IF live_5m # EmptyDict /\ GetOr(live_5m, "open", Num(0)).v > 0
    THEN CASE (live_5m["close"].v - live_5m["open"].v) * 1000 > 5 * live_5m["open"].v
                 -> Num(30)
           [] (live_5m["close"].v - live_5m["open"].v) * 1000 > 2 * live_5m["open"].v
                 -> Num(15)
           [] (live_5m["close"].v - live_5m["open"].v) * 1000 < -5 * live_5m["open"].v
                 -> Num(-30)
           [] (live_5m["close"].v - live_5m["open"].v) * 1000 < -2 * live_5m["open"].v
                 -> Num(-15)
           [] OTHER -> Num(0)
    ELSE None

\* lines 95-125: the 15m score, None without more than 30 rows
Trend15mScore(stable_15m) ==
    IF stable_15m.len # 0 /\ stable_15m.len > 30
    THEN IF stable_15m.current_macd > 0
         THEN IF stable_15m.current_macd > stable_15m.prev_macd THEN Num(30) ELSE Num(15)
         ELSE IF stable_15m.current_macd < 0
              THEN IF stable_15m.current_macd < stable_15m.prev_macd
                   THEN Num(-30) ELSE Num(-15)
              ELSE Num(0)
    ELSE None

\* lines 129-138: total_score
TotalScore(trend_1h_score, trend_15m_score, trend_5m_score) ==
    IF trend_1h_score # None
    THEN Num(Max(-100, Min(100, trend_1h_score.v + OrElse(trend_15m_score, Num(0)).v
                                 + OrElse(trend_5m_score, Num(0)).v)))
    ELSE None

\* `x if x is not None else 0`
NotNoneOrZero(x) == IF x # None THEN x ELSE Num(0)

\* the keys of `details` that tell which components were computed
TrendDetails(trend_1h_score, trend_15m_score, trend_5m_score) ==
    [k \in ({"1h_trend"} \cap (IF trend_1h_score # None THEN {"1h_trend"} ELSE {}))
           \cup ({"15m_trend"} \cap (IF trend_15m_score # None THEN {"15m_trend"} ELSE {}))
           \cup ({"live_correction"} \cap
                    (IF trend_5m_score # None THEN {"live_correction"} ELSE {}))
       |-> CASE k = "1h_trend" -> Str(IF trend_1h_score.v > 0 THEN "up" ELSE "down")
             [] k = "15m_trend" -> Str(PyStr(trend_15m_score))
             [] k = "live_correction" -> Str(PyStr(trend_5m_score))]

\* lines 140-148: the returned dict
TrendResult(total_score, trend_1h_score, trend_15m_score, trend_5m_score) ==
    [score |-> NotNoneOrZero(total_score),
     details |-> TrendDetails(trend_1h_score, trend_15m_score, trend_5m_score),
     confidence |-> IF total_score # None THEN Num(Abs(total_score.v)) ELSE Num(0),
     total_trend_score |-> NotNoneOrZero(total_score),
     trend_1h_score |-> NotNoneOrZero(trend_1h_score),
     trend_15m_score |-> NotNoneOrZero(trend_15m_score),
     trend_5m_score |-> NotNoneOrZero(trend_5m_score)]

AnalyzeWith(trend_1h_score, trend_15m_score, trend_5m_score) ==
    TrendResult(TotalScore(trend_1h_score, trend_15m_score, trend_5m_score),
                trend_1h_score, trend_15m_score, trend_5m_score)

\* TrendSubAgent.analyze
analyze(s) ==
    AnalyzeWith(Trend1hScore(s.stable_1h), Trend15mScore(s.stable_15m),
                Trend5mScore(s.live_5m))

InitTrend ==
    /\ ProtocolIdle
    /\ ValidatorIdle
    /\ ParserIdle
    /\ CycleIdle
    /\ LlmIdle
    /\ LoopIdle
    /\ MetricsIdle /\ StrategyIdle /\ StatsIdle /\ StateIdle
    /\ snapshot \in Snapshots
    /\ trend = None

trendIdle == <<protoVars, valVars, parserVars, cycleVars, llmVars, loopVars,
               metricsVars, strategyVars, statsVars, stateVars>>

Analyze ==
    /\ trend = None
    /\ trend' = analyze(snapshot)
    /\ UNCHANGED <<snapshot, trendIdle>>

NextTrend == Analyze

SpecTrend == InitTrend /\ [][NextTrend]_vars

-----------------------------------------------------------------------------
(* A claim about the trend score                                           *)

Analyzed == trend # None
Usable1h == snapshot.stable_1h.len > 50
Usable15m == snapshot.stable_15m.len > 30
Usable5m == snapshot.live_5m # EmptyDict /\ snapshot.live_5m["open"].v > 0
\* the sum of the components that are available, within [-100, 100]
ClampedSum ==
    Max(-100, Min(100,
        trend.trend_1h_score.v
        + (IF Usable15m THEN trend.trend_15m_score.v ELSE 0)
        + (IF Usable5m THEN trend.trend_5m_score.v ELSE 0)))
Neutral == Num(0)

\* C25 (as claimed): when the 1h frame has no usable data the total trend
\* score that analyze reports is a value other than the neutral score 0,
\* whatever the 15m and 5m components are; when the 1h data is present the
\* total is the sum of the available components clamped to [-100, 100].
C25_UndefinedWithout1h ==
    Analyzed =>
        /\ ~Usable1h => (trend.total_trend_score # Neutral /\ trend.score # Neutral)
        /\ Usable1h => trend.total_trend_score = Num(ClampedSum)

\* the part of C25 about present 1h data alone, and what analyze reports
\* without it
C25_ClampedSumWith1h ==
    (Analyzed /\ Usable1h) =>
        (trend.total_trend_score = Num(ClampedSum) /\ trend.total_trend_score # Neutral)
C25_ZeroWithout1h ==
    (Analyzed /\ ~Usable1h) =>
        (trend.total_trend_score = Neutral /\ trend.score = Neutral
         /\ trend.confidence = Neutral)


-----------------------------------------------------------------------------
(* src/strategies/optimized_v2.py: optimized_strategy_v2                   *)
(*                                                                         *)
(* The 5m frame is its length and the indicator values calculate_indicators*)
(* reads off it.  bb_position is in hundredths and rvol in tenths; the     *)
(* numbers formatted into `reason` after the signal name are left out.     *)

\* StrategyConfig
rsi_oversold == 32
rsi_overbought == 68
rsi_extreme_oversold == 25
rsi_extreme_overbought == 80
rvol_threshold == 12
enable_short == TRUE
\* `if len(df) < 50`
MinCandles == 50
\* config.symbol, and another symbol the portfolio may hold
Symbol == "BTCUSDT"
OtherSymbol == "ETHUSDT"

\* what calculate_indicators derives from the last two EMA and MACD values
calculate_indicators(raw) ==
    [rsi |-> raw.rsi,
     rsi_prev |-> raw.rsi_prev,
     is_uptrend |-> raw.ema_fast > raw.ema_slow,
     golden_cross |-> raw.ema_fast > raw.ema_slow /\ raw.ema_fast_prev <= raw.ema_slow_prev,
     death_cross |-> raw.ema_fast < raw.ema_slow /\ raw.ema_fast_prev >= raw.ema_slow_prev,
     macd_momentum |-> raw.macd_hist > raw.macd_hist_prev,
     macd_positive |-> raw.macd_hist > 0,
     bb_position |-> raw.bb_position,
     rvol |-> raw.rvol,
     atr |-> raw.atr]

RawIndicators ==
    [rsi : {20, 30, 45, 65, 70, 85}, rsi_prev : {25, 50},
     ema_fast : {1, 2, 3}, ema_slow : {2}, ema_fast_prev : {1, 2, 3}, ema_slow_prev : {2},
     macd_hist : {-1, 1}, macd_hist_prev : {-2, 2},
     bb_position : {3, 7, 50, 97}, rvol : {10, 15}, atr : {1}]

Position(side, entry_price) == [side |-> side, entry_price |-> entry_price]
Portfolios ==
    {<<>>} \cup
    {[s \in {sym} |-> Position(side, 100)] :
        sym \in {Symbol, OtherSymbol}, side \in {"LONG", "SHORT"}}
StrategyPrices == {99, 101}

StrategySignal(name, confidence) == [name |-> name, confidence |-> confidence]
When(cond, name, confidence) ==
    IF cond THEN <<StrategySignal(name, confidence)>> ELSE <<>>

\* lines 173-193
LongSignals(i) ==
    When(i.rsi < rsi_oversold /\ i.is_uptrend, "rsi_oversold_uptrend", 75)
    \o When(i.rsi < rsi_extreme_oversold, "rsi_extreme_oversold", 85)
    \o When(i.golden_cross /\ i.macd_positive, "golden_cross_macd+", 80)
    \o When(i.bb_position < 10 /\ i.rsi < 50, "bb_lower_breakout", 70)
    \o When(i.rsi < 40 /\ i.rsi > i.rsi_prev /\ i.macd_momentum, "rsi_reversal", 65)

\* lines 213-229
ShortSignals(i) ==
    When(i.rsi > rsi_overbought /\ ~i.is_uptrend, "rsi_overbought_downtrend", 75)
    \o When(i.rsi > rsi_extreme_overbought, "rsi_extreme_overbought", 80)
    \o When(i.death_cross /\ ~i.macd_positive, "death_cross_macd-", 80)
    \o When(i.bb_position > 95 /\ i.rsi > 60, "bb_upper_breakout", 70)

\* max(signals, key=lambda x: x[1]): the first signal of the greatest confidence
BestSignal(signals) ==
    signals[Least({k \in DOMAIN signals :
                      \A j \in DOMAIN signals : signals[j].confidence <= signals[k].confidence})]

\* the volume bonus: min(confidence + 5, 95)
Weighted(confidence, i) ==
    IF i.rvol > rvol_threshold THEN Min(confidence + 5, 95) ELSE confidence

TradeParams(i, price) ==
    [stop_loss_pct |-> Frac(i.atr * 15 * 100, price * 10),
     take_profit_pct |-> Frac(i.atr * 25 * 100, price * 10)]

Opening(action, best, i, price) ==
    [action |-> action, confidence |-> Weighted(best.confidence, i),
     reason |-> action \o "_" \o best.name \o "_rsi" \o Decimal(i.rsi),
     trade_params |-> TradeParams(i, price)]
Plain(action, confidence, reason) ==
    [action |-> action, confidence |-> confidence, reason |-> reason]

\* lines 171-244: the entry signals, None when none fires
Entry(i, price) ==
    IF LongSignals(i) # <<>>
    THEN Opening("long", BestSignal(LongSignals(i)), i, price)
    ELSE IF enable_short /\ ShortSignals(i) # <<>>
         THEN Opening("short", BestSignal(ShortSignals(i)), i, price)
         ELSE None

\* lines 255-258
PnlPct(position, price) ==
    IF position.side = "LONG"
    THEN Frac((price - position.entry_price) * 100, position.entry_price)
    ELSE Frac((position.entry_price - price) * 100, price)

\* lines 260-293: the management of the open position
Manage(i, side, pnl_pct) ==
    IF side = "LONG"
    THEN CASE i.rsi > rsi_overbought /\ ~i.macd_momentum
                 -> Plain("close", 75, "tp_rsi" \o Decimal(i.rsi) \o "_macd_weak")
           [] i.rsi > rsi_extreme_overbought
                 -> Plain("close", 85, "tp_rsi_extreme_" \o Decimal(i.rsi))
           [] i.death_cross /\ FracLess(pnl_pct, ZeroFloat)
                 -> Plain("close", 70, "sl_death_cross_pnl")
           [] i.bb_position > 95 /\ FracLess(Frac(1, 2), pnl_pct)
                 -> Plain("close", 65, "tp_bb_upper_pnl")
           [] OTHER -> Plain("hold", 50, "holding_pnl")
    ELSE CASE i.rsi < rsi_oversold
                 -> Plain("close", 75, "tp_short_rsi" \o Decimal(i.rsi))
           [] i.golden_cross -> Plain("close", 70, "sl_golden_cross")
           [] i.bb_position < 5 /\ FracLess(Frac(1, 2), pnl_pct)
                 -> Plain("close", 65, "tp_bb_lower_pnl")
           [] OTHER -> Plain("hold", 50, "holding_pnl")

\* a variant of HasPosition that never sees the position
HasPosition_never(symbol, held) == FALSE

\* has_position = symbol in portfolio.positions
HasPosition(symbol, held) == symbol \in DOMAIN held

\* optimized_strategy_v2
optimized_strategy_v2(candles, i, held, price) ==
    IF candles < MinCandles THEN Plain("hold", 0, "insufficient_data")
    ELSE IF ~HasPosition(Symbol, held)
         THEN IF Entry(i, price) # None THEN Entry(i, price)
              ELSE Plain("hold", 30, "no_signal")
         ELSE Manage(i, held[Symbol].side, PnlPct(held[Symbol], price))

InitStrategy ==
    /\ ProtocolIdle
    /\ ValidatorIdle
    /\ ParserIdle
    /\ test_mode = FALSE
    /\ pc = "off"
    /\ cycle_counter = 0
    /\ vote_result = None
    /\ order_params = None
    /\ audit_result = None
    /\ guardian_status = ""
    /\ executions = <<>>
    /\ trade_history = <<>>
    /\ result = None
    /\ LlmIdle
    /\ LoopIdle
    /\ MetricsIdle /\ TrendIdle /\ StatsIdle /\ StateIdle
    /\ \/ stable_5m \in {0, MinCandles - 1} /\ ind = None
       \/ stable_5m = MinCandles /\ \E raw \in RawIndicators : ind = calculate_indicators(raw)
    /\ positions \in Portfolios
    /\ current_price \in StrategyPrices
    /\ signal = None

strategyIdle == <<protoVars, valVars, parserVars, llmVars, loopVars, metricsVars,
                  trendVars, statsVars, stateVars, test_mode, pc, cycle_counter,
                  vote_result, order_params, audit_result, guardian_status, executions,
                  trade_history, result>>

Strategy ==
    /\ signal = None
    /\ signal' = optimized_strategy_v2(stable_5m, ind, positions, current_price)
    /\ UNCHANGED <<stable_5m, ind, positions, current_price, strategyIdle>>

NextStrategy == Strategy

SpecStrategy == InitStrategy /\ [][NextStrategy]_vars

-----------------------------------------------------------------------------
(* A claim about the strategy                                              *)

Decided == signal # None
Holding == Symbol \in DOMAIN positions

\* C28: optimized_strategy_v2 returns long or short only when the symbol has
\* no position and close only when it has one; with fewer than 50 candles it
\* returns hold with confidence 0.
C28_OpenOnlyWhenFlat ==
    Decided =>
        /\ signal.action \in {"long", "short"} => ~Holding
        /\ signal.action = "close" => Holding
        /\ stable_5m < 50 => (signal.action = "hold" /\ signal.confidence = 0)

C28_Witness ==
    /\ Decided
    /\ signal.action \in {"long", "short"}
    /\ ~Holding
    /\ OtherSymbol \in DOMAIN positions

\* the other cases of C28 happen as well
C28_CloseReached == Decided /\ signal.action = "close" /\ Holding
C28_ShortFrameReached == Decided /\ stable_5m = 49 /\ signal.action = "hold"


-----------------------------------------------------------------------------
(* src/llm/metrics.py under concurrent chat_messages calls                 *)
(*                                                                         *)
(* Every thread runs one chat_messages call on its own client.  A call is  *)
(* followed line by line through record_request, client.post and           *)
(* record_success or record_error; inside a record function each           *)
(* `stat.field += 1` is a read followed by a write, and `with _lock` is an *)
(* acquire before the first and a release after the last.                  *)

MaxAttempts == 2
Threads == {1, 2}
Providers == {"deepseek", "openai"}
Models == {"chat", "reasoner"}
\* what one attempt can end with: a parsed reply, a failure the loop retries,
\* a failure it re-raises at once
AttemptOutcomes == {"ok", "retryable", "fatal"}

LLMStats == [total_requests |-> 0, total_success |-> 0, total_errors |-> 0,
             last_error |-> ""]

\* _get_or_create(map_ref, key), as the map it leaves
get_or_create(map_ref, key) ==
    IF key \in DOMAIN map_ref THEN map_ref ELSE (key :> LLMStats) @@ map_ref

\* the counter each record function increments
CounterOf(op) ==
    CASE op = "request" -> "total_requests"
      [] op = "success" -> "total_success"
      [] op = "error" -> "total_errors"

\* the statements of a record function after the increment
AfterIncrement(stat, op, error) ==
    CASE op = "request" -> stat
      [] op = "success" -> [stat EXCEPT !.last_error = ""]
      [] op = "error" -> [stat EXCEPT !.last_error = error]

\* the text chat_messages passes to record_error
ErrorText(outcome) == IF outcome = "fatal" THEN "HTTP 401" ELSE "HTTP 503"

Call(provider, model) ==
    [provider |-> provider, model |-> model, line |-> "loop", op |-> "",
     attempt |-> 0, outcome |-> "", tmp |-> 0, sent |-> 0, recorded |-> 0]

InitStats ==
    /\ ProtocolIdle
    /\ ValidatorIdle
    /\ ParserIdle
    /\ CycleIdle
    /\ LlmIdle
    /\ LoopIdle
    /\ MetricsIdle /\ TrendIdle /\ StrategyIdle /\ StateIdle
    /\ stats_by_provider = <<>>
    /\ stats_by_model = <<>>
    /\ lock = None
    /\ \E p \in Providers, m \in Models :
          calls = [t \in Threads |->
                      IF t = 1 THEN Call("deepseek", "chat") ELSE Call(p, m)]

statsIdle == <<protoVars, valVars, parserVars, cycleVars, llmVars, loopVars,
               metricsVars, trendVars, strategyVars, stateVars>>

\* a variant of CanAcquire for a lock that excludes nobody
CanAcquire_unlocked(holder) == TRUE

\* Lock.acquire returns once no thread holds the lock
CanAcquire(holder) == holder = None

At(t, line) == calls[t].line = line
Goto(t, line) == calls' = [calls EXCEPT ![t].line = line]

\* `for attempt in range(self.config.max_retries)`: the next iteration calls
\* record_request; past the last one the call raises last_error
Attempt(t) ==
    /\ At(t, "loop")
    /\ calls' = [calls EXCEPT
                    ![t].line = IF calls[t].attempt < MaxAttempts THEN "acquire" ELSE "raised",
                    ![t].op = IF calls[t].attempt < MaxAttempts THEN "request" ELSE ""]
    /\ UNCHANGED <<stats_by_provider, stats_by_model, lock, statsIdle>>

\* `with _lock:` on entry
Acquire(t) ==
    /\ At(t, "acquire")
    /\ CanAcquire(lock)
    /\ lock' = Num(t)
    /\ Goto(t, "provider_read")
    /\ UNCHANGED <<stats_by_provider, stats_by_model, statsIdle>>

\* the first round of the for loop: stat = _get_or_create(_stats_by_provider,
\* provider) and the read of `stat.field += 1`
ProviderRead(t) ==
    /\ At(t, "provider_read")
    /\ stats_by_provider' = get_or_create(stats_by_provider, calls[t].provider)
    /\ calls' = [calls EXCEPT
                    ![t].line = "provider_write",
                    ![t].tmp = get_or_create(stats_by_provider, calls[t].provider)
                                  [calls[t].provider][CounterOf(calls[t].op)]]
    /\ UNCHANGED <<stats_by_model, lock, statsIdle>>

\* the write of `stat.field += 1` and the statements after it
ProviderWrite(t) ==
    /\ At(t, "provider_write")
    /\ stats_by_provider' =
          [stats_by_provider EXCEPT ![calls[t].provider] =
              AfterIncrement([@ EXCEPT ![CounterOf(calls[t].op)] = calls[t].tmp + 1],
                             calls[t].op, ErrorText(calls[t].outcome))]
    /\ Goto(t, "model_read")
    /\ UNCHANGED <<stats_by_model, lock, statsIdle>>

\* the second round of the for loop, on _stats_by_model
ModelRead(t) ==
    /\ At(t, "model_read")
    /\ stats_by_model' = get_or_create(stats_by_model, calls[t].model)
    /\ calls' = [calls EXCEPT
                    ![t].line = "model_write",
                    ![t].tmp = get_or_create(stats_by_model, calls[t].model)
                                  [calls[t].model][CounterOf(calls[t].op)]]
    /\ UNCHANGED <<stats_by_provider, lock, statsIdle>>

ModelWrite(t) ==
    /\ At(t, "model_write")
    /\ stats_by_model' =
          [stats_by_model EXCEPT ![calls[t].model] =
              AfterIncrement([@ EXCEPT ![CounterOf(calls[t].op)] = calls[t].tmp + 1],
                             calls[t].op, ErrorText(calls[t].outcome))]
    /\ Goto(t, "release")
    /\ UNCHANGED <<stats_by_provider, lock, statsIdle>>

\* where chat_messages goes on after the record function returned
AfterRecord(call) ==
    CASE call.op = "request" -> [call EXCEPT !.line = "post", !.sent = @ + 1]
      [] call.op = "success" -> [call EXCEPT !.line = "returned", !.recorded = @ + 1]
      [] call.op = "error" /\ call.outcome = "fatal" ->
            [call EXCEPT !.line = "raised", !.recorded = @ + 1]
      [] OTHER -> [call EXCEPT !.line = "loop", !.recorded = @ + 1, !.attempt = @ + 1]

\* `with _lock:` on exit, and the return of the record function
Release(t) ==
    /\ At(t, "release")
    /\ lock' = None
    /\ calls' = [calls EXCEPT ![t] = AfterRecord(calls[t])]
    /\ UNCHANGED <<stats_by_provider, stats_by_model, statsIdle>>

\* client.post, raise_for_status and _parse_response: the attempt succeeds
\* or raises, and the call goes to record_success or record_error
Post(t) ==
    /\ At(t, "post")
    /\ \E o \in AttemptOutcomes :
          calls' = [calls EXCEPT ![t].line = "acquire",
                                 ![t].outcome = o,
                                 ![t].op = IF o = "ok" THEN "success" ELSE "error"]
    /\ UNCHANGED <<stats_by_provider, stats_by_model, lock, statsIdle>>

NextStats ==
    \E t \in Threads :
        \/ Attempt(t)
        \/ Acquire(t)
        \/ ProviderRead(t)
        \/ ProviderWrite(t)
        \/ ModelRead(t)
        \/ ModelWrite(t)
        \/ Release(t)
        \/ Post(t)

SpecStats == InitStats /\ [][NextStats]_vars


-----------------------------------------------------------------------------
(* A claim about the LLM metrics under concurrency                         *)

StoreMap(store) == IF store = "provider" THEN stats_by_provider ELSE stats_by_model
KeyOf(t, store) == IF store = "provider" THEN calls[t].provider ELSE calls[t].model
Users(store, k) == {t \in Threads : KeyOf(t, store) = k}
\* the lines of a record function after its write to the store
PastWrite(store) ==
    IF store = "provider" THEN {"model_read", "model_write", "release"} ELSE {"release"}
\* the requests and the outcomes thread t has written to the store so far
WrittenRequests(t, store) ==
    calls[t].sent
    + (IF calls[t].op = "request" /\ calls[t].line \in PastWrite(store) THEN 1 ELSE 0)
WrittenOutcomes(t, store) ==
    calls[t].recorded
    + (IF calls[t].op \in {"success", "error"} /\ calls[t].line \in PastWrite(store)
       THEN 1 ELSE 0)
\* thread t is between recording a request and recording its outcome
BetweenRecords(t, store) == WrittenRequests(t, store) > WrittenOutcomes(t, store)

RECURSIVE SumRequests(_, _)
SumRequests(S, store) ==
    IF S = {} THEN 0
    ELSE WrittenRequests(Least(S), store) + SumRequests(S \ {Least(S)}, store)
RECURSIVE SumOutcomes(_, _)
SumOutcomes(S, store) ==
    IF S = {} THEN 0
    ELSE WrittenOutcomes(Least(S), store) + SumOutcomes(S \ {Least(S)}, store)

Balanced(stat, store, k) ==
    /\ stat.total_requests >= stat.total_success + stat.total_errors
    /\ (\A t \in Users(store, k) : ~BetweenRecords(t, store)) =>
          stat.total_requests = stat.total_success + stat.total_errors
    \* every attempt has incremented total_requests once, and every finished
    \* one exactly one of total_success and total_errors
    /\ stat.total_requests = SumRequests(Users(store, k), store)
    /\ stat.total_success + stat.total_errors
          = SumOutcomes(Users(store, k), store)

\* C29: for every provider key and every model key, in every state reached
\* by any interleaving of concurrent chat_messages calls, total_requests >=
\* total_success + total_errors, with equality whenever no call is between
\* recording a request and recording its outcome; every attempt increments
\* total_requests once and then exactly one of total_success, total_errors.
C29_RequestsCoverOutcomes ==
    \A store \in {"provider", "model"} :
        \A k \in DOMAIN StoreMap(store) : Balanced(StoreMap(store)[k], store, k)

\* two calls on one provider key, one of them between its request and its
\* outcome, after a success and an error were recorded
C29_Witness ==
    /\ calls[1].provider = calls[2].provider
    /\ calls[1].model # calls[2].model
    /\ "deepseek" \in DOMAIN stats_by_provider
    /\ stats_by_provider["deepseek"].total_success >= 1
    /\ stats_by_provider["deepseek"].total_errors >= 1
    /\ stats_by_provider["deepseek"].total_requests
          = stats_by_provider["deepseek"].total_success
            + stats_by_provider["deepseek"].total_errors + 1
    /\ \E t \in Threads : BetweenRecords(t, "provider") /\ calls[t].line = "post"


-----------------------------------------------------------------------------
(* src/server/state.py: SharedState                                        *)
(*                                                                         *)
(* datetime.now() is the variable `now`, in ticks of a fraction of a       *)
(* second; every call takes one tick.  strftime("%H:%M:%S") keeps the      *)
(* second of the day and drops the date and the fraction;                  *)
(* strftime("%Y-%m-%d %H:%M:%S") keeps the date as well.  The calls are    *)
(* taken one at a time, each from its first line to its last.              *)

EquityCap == 200
DecisionCap == 100
LogCap == 500
DaySeconds == 86400
TicksPerSecond == 2
MaxTicks == 4

\* strftime("%H:%M:%S") and strftime("%Y-%m-%d %H:%M:%S") of a clock value
TimeLabel(clock) == (clock \div TicksPerSecond) % DaySeconds
DateTimeLabel(clock) == clock \div TicksPerSecond

\* the moment the exploration starts at, late enough for full histories
StartSecond == LogCap
StartClock == StartSecond * TicksPerSecond
DayTicks == DaySeconds * TicksPerSecond
\* the calls and waits since the start, a wait of a day counted as one
Elapsed(clock) == ((clock - StartClock) \div DayTicks) + ((clock - StartClock) % DayTicks)

Point(time, value) == [time |-> time, value |-> value]
LogLine(timestamp, message) == [timestamp |-> timestamp, message |-> message]
Overview(equity, available, wallet, pnl) ==
    [total_equity |-> equity, available_balance |-> available,
     wallet_balance |-> wallet, total_pnl |-> pnl]

Equities == {1000, 1001}
Messages == {"Cycle started"}
\* the decision dicts update_decision is called with: without and with a
\* timestamp of their own, without and with a confidence
DecisionDicts ==
    {[action |-> Str("hold"), confidence |-> Num(50)],
     [action |-> Str("long"), timestamp |-> Num(1)]}

\* the histories as n earlier calls, one a second, have left them
EarlierPoints(n) == [i \in 1..n |-> Point(TimeLabel((StartSecond - n + i) * TicksPerSecond), 1000)]
EarlierDecisions(n) ==
    [i \in 1..n |-> [action |-> Str("hold"), confidence |-> Num(50),
                     timestamp |-> Num(TimeLabel((StartSecond - i) * TicksPerSecond))]]
EarlierLogs(n) ==
    [i \in 1..n |-> LogLine(DateTimeLabel((StartSecond - n + i) * TicksPerSecond),
                            "Cycle started")]
Fillings(cap) == {0, cap - 1, cap}

InitState ==
    /\ ProtocolIdle
    /\ ValidatorIdle
    /\ ParserIdle
    /\ CycleIdle
    /\ LlmIdle
    /\ LoopIdle
    /\ MetricsIdle /\ TrendIdle /\ StrategyIdle /\ StatsIdle
    /\ now = StartClock
    /\ \E n \in Fillings(EquityCap) : equity_history = EarlierPoints(n)
    /\ \E n \in Fillings(DecisionCap) : decision_history = EarlierDecisions(n)
    /\ \E n \in Fillings(LogCap) : recent_logs = EarlierLogs(n)
    /\ account_overview = Overview(0, 0, 0, 0)
    /\ latest_decision = EmptyDict
    /\ critic_confidence = Num(0)
    /\ last_update = Str("")

stateIdle == <<protoVars, valVars, parserVars, cycleVars, llmVars, loopVars,
               metricsVars, trendVars, strategyVars, statsVars>>

\* a variant of PopOldest that evicts nothing
PopOldest_keeps_all(history, cap) == history

\* `if len(history) > cap: history.pop(0)`
PopOldest(history, cap) == IF Len(history) > cap THEN Tail(history) ELSE history
\* `if len(history) > cap: history.pop()`
PopLast(history, cap) ==
    IF Len(history) > cap THEN SubSeq(history, 1, Len(history) - 1) ELSE history

\* update_account, lines 57-77
update_account(history, timestamp, equity) ==
    IF history = <<>> \/ history[Len(history)].time # timestamp
    THEN PopOldest(Append(history, Point(timestamp, equity)), EquityCap)
    ELSE history

\* lines 84-85: the decision with a timestamp, its own or the current one
Stamped(d, timestamp) ==
    IF "timestamp" \in DOMAIN d THEN d ELSE ("timestamp" :> Num(timestamp)) @@ d

UpdateAccount ==
    /\ Elapsed(now) < MaxTicks
    /\ \E equity \in Equities :
          /\ account_overview' = Overview(equity, equity, equity, 0)
          /\ equity_history' = update_account(equity_history, TimeLabel(now), equity)
    /\ now' = now + 1
    /\ UNCHANGED <<decision_history, recent_logs, latest_decision, critic_confidence,
                   last_update, stateIdle>>

\* update_decision, lines 79-91
UpdateDecision ==
    /\ Elapsed(now) < MaxTicks
    /\ \E d \in DecisionDicts :
          /\ latest_decision' = Stamped(d, TimeLabel(now))
          /\ critic_confidence' = GetOr(d, "confidence", Num(0))
          /\ decision_history' =
                PopLast(<<Stamped(d, TimeLabel(now))>> \o decision_history, DecisionCap)
    /\ last_update' = Num(TimeLabel(now))
    /\ now' = now + 1
    /\ UNCHANGED <<equity_history, recent_logs, account_overview, stateIdle>>

\* add_log, lines 93-97
AddLog ==
    /\ Elapsed(now) < MaxTicks
    /\ \E message \in Messages :
          recent_logs' =
              PopOldest(Append(recent_logs, LogLine(DateTimeLabel(now), message)), LogCap)
    /\ now' = now + 1
    /\ UNCHANGED <<equity_history, decision_history, account_overview, latest_decision,
                   critic_confidence, last_update, stateIdle>>

\* time passes between two calls: a tick, or a whole day
Wait ==
    /\ Elapsed(now) < MaxTicks
    /\ now' \in {now + 1, now + DayTicks}
    /\ UNCHANGED <<equity_history, decision_history, recent_logs, account_overview,
                   latest_decision, critic_confidence, last_update, stateIdle>>

NextState == UpdateAccount \/ UpdateDecision \/ AddLog \/ Wait

SpecState == InitState /\ [][NextState]_vars

-----------------------------------------------------------------------------
(* A claim about the histories of SharedState                              *)

\* the three bounds
WithinCaps ==
    /\ Len(equity_history) <= 200
    /\ Len(decision_history) <= 100
    /\ Len(recent_logs) <= 500
\* no point carries the time label of the point before it
NoRepeatedLabel ==
    \A i \in 2..Len(equity_history) : equity_history[i].time # equity_history[i - 1].time
\* a history that changed took one new entry at its newest end and, when it
\* was full, lost exactly the entry at its oldest end
Grown(old, new, cap) ==
    /\ Len(new) = Min(Len(old) + 1, cap)
    /\ \A i \in 1..(Len(new) - 1) : new[i] = old[i + (Len(old) + 1 - Len(new))]
GrownAtFront(old, new, cap) ==
    /\ Len(new) = Min(Len(old) + 1, cap)
    /\ \A i \in 2..Len(new) : new[i] = old[i - 1]
Evictions ==
    /\ equity_history' # equity_history =>
          /\ Grown(equity_history, equity_history', 200)
          /\ equity_history'[Len(equity_history')].time = TimeLabel(now)
          /\ equity_history # <<>> =>
                equity_history[Len(equity_history)].time # TimeLabel(now)
    /\ decision_history' # decision_history =>
          /\ GrownAtFront(decision_history, decision_history', 100)
          /\ decision_history'[1] = latest_decision'
    /\ recent_logs' # recent_logs =>
          /\ Grown(recent_logs, recent_logs', 500)
          /\ recent_logs'[Len(recent_logs')].timestamp = DateTimeLabel(now)
\* update_decision puts the decision it was called with first
NewestFirst == decision_history # <<>> /\ latest_decision # EmptyDict
                  => decision_history[1] = latest_decision

=============================================================================
